---------------------------- MODULE Spec2Model ----------------------------
(***************************************************************************)
(* A model of llmparser: the proxy rotator (proxy.py), the HTTP fetcher and *)
(* the query API (query.py), auth refresh (auth.py), the block detector    *)
(* (extractors/block_detection.py), the adaptive fetch engine              *)
(* (extractors/adaptive.py), the crawler (spiders/blog_spider.py) and the  *)
(* rate limiter (rate_limit.py).  Each component has its own               *)
(* specification; the variables of the other components stay idle.         *)
(***************************************************************************)
EXTENDS Integers, Sequences, FiniteSets, Bags, TLC

VARIABLES
    \* ---- ProxyRotator driven by arbitrary callers (proxy.py)
    rotator,        \* the ProxyRotator object, or NoRotator
    rotRet,         \* value returned by the last get_proxy()/rotate(); NoProxy after a mark_* call
    rotStreak,      \* per proxy: mark_failed calls since the last mark_success (observer)
    rotDoomed,      \* per proxy: the streak has reached three at some point (observer)
    \* ---- query.fetch
    fPc,            \* "idle" | "first" | "artloop" | "errloop" | "done"
    proxy_list,     \* argument proxy_list
    retry_on_block, \* argument retry_on_block
    fRot,           \* fetch's local rotator, or NoRotator
    current_proxy,  \* local current_proxy
    fAttempt,       \* loop variable attempt of the running block-retry loop
    article,        \* local article (NoArticle before the first assignment)
    fExc,           \* the FetchError handled by the except clause (NoExc outside)
    fResult,        \* how fetch ended: [kind |-> "return", article] / [kind |-> "raise", exc]
    fCalls,         \* number of _do_fetch calls made (observer)
    fTrace,         \* per _do_fetch call: <<proxy, class of outcome>> (observer)
    fMarks,         \* the mark_failed / mark_success calls made on fRot (observer)
    \* ---- query.fetch_html
    hPc,            \* "idle" | "start" | "loop" | "done"
    max_retries,    \* argument max_retries
    auth,           \* argument auth: the AuthSession object, or NoAuth
    reqHeaders,     \* req.headers, the credential headers of the Request object
    attempt,        \* loop variable attempt
    last_exc,       \* local last_exc
    hResult,        \* how fetch_html ended
    hRequests,      \* number of requests sent (observer)
    hSent,          \* the last request sent: its headers, the auth object then (observer)
    hLastResp,      \* the response to the last request sent (observer)
    hRefreshed,     \* the iteration just completed ran the refresh callback to its end (observer)
    \* ---- extractors.adaptive.adaptive_fetch_html
    aPc,            \* "idle" | "static" | "amp" | "mobile" | "playwright" | "fallback" | "plugins" | "done"
    classification, \* local classification (NoClassification before the classifier ran)
    aPlugins,       \* get_strategies(): the registered plugins' names, in order
    aPlugIdx,       \* position of the plugin loop
    aResult,        \* how adaptive_fetch_html ended
    aStatic,        \* number of fetch_html calls made (observer)
    aRenders,       \* number of headless renders attempted (observer)
    aFailed,        \* the steps that failed after the initial fetch (observer)
    \* ---- query.fetch_batch
    bPc,            \* "idle" | "start" | "collect" | "shutdown" | "done"
    urls,           \* argument urls
    on_error,       \* argument on_error
    max_workers,    \* argument max_workers
    bTask,          \* per index: the state of the future submitted for urls[i]
    bFetched,       \* per index: how the fetch of urls[i] ended (observer)
    bYielded,       \* the indices of the futures as_completed has yielded, in that order
    results,        \* local results
    bPending,       \* the exception travelling out of the with block (NoExc if none)
    bResult,        \* how fetch_batch ended
    \* ---- spiders.blog_spider.BlogSpider, one crawl
    args,           \* the spider arguments: max_pages, max_depth, render_js, ...
    persisted,      \* out_dir when the spider is constructed: seen_urls.txt and index.json
    _seen_urls,     \* self._seen_urls
    _seen_feeds,    \* self._seen_feeds
    _playwright_attempted, \* self._playwright_attempted
    _pages_crawled, \* self._pages_crawled
    startPc,        \* position of the generator _iter_start_requests
    queue,          \* the requests handed to the scheduler and not yet answered (a bag)
    cb,             \* the callback that is running, with its position (NoCallback between callbacks)
    enqueued,       \* per normalized URL: content-page requests enqueued, re-renders aside (observer)
    renders,        \* per URL: headless re-render requests enqueued (observer)
    step,           \* what the step just taken did with a page response or an <a href> (observer)
    \* ---- rate_limit.DomainRateLimiter shared by threads
    _min_interval,  \* self._min_interval, in clock ticks
    _last_request_at, \* self._last_request_at
    _lock,          \* the thread holding self._lock, or NoThread
    clock,          \* time.monotonic()
    wPc,            \* per thread: its position in wait()
    wLocal,         \* per thread: the locals domain, now, last, next_allowed, delay of wait()
    assigned,       \* per domain: the release times assigned so far, in order (observer)
    wCalls,         \* number of wait() calls started (observer),
    \* ---- playwright_pool.PlaywrightPool used by threads
    max_contexts,   \* argument max_contexts of PlaywrightPool()
    _max_contexts,  \* self._max_contexts
    _enabled,       \* self._enabled
    _local,         \* per thread: its _ThreadState, the browser and the OrderedDict of contexts
    ctxClosed,      \* the contexts that close() was called on
    ctxMade,        \* number of contexts that browser.new_context() has made
    lastUse,        \* per thread and key: the get_context call that last asked for the key (observer)
    poolCalls,      \* number of get_context calls made (observer)
    poolCall,       \* what the last get_context call did (observer),
    \* ---- block_detection.detect_block on a page that grows
    dbHtml,         \* the HTML text H, as the detector reads it
    dbStatus,       \* argument status_code
    dbWhole,        \* H followed by the clean content appended so far
    dbAppends,      \* number of pieces of clean content appended,
    \* ---- extractors.feed.parse_feed
    xml_text,       \* argument xml_text
    feedResult,     \* how parse_feed ended,
    \* ---- extractors.urlnorm.normalize_url applied to its own result
    urlText,        \* argument url of the first call
    urlNorm,        \* the results of the calls so far, each call taking the result before it,
    \* ---- extractors.main_content.extract_main_content
    exWords,        \* word counts of the three built-in extractors on the page
    extractors,     \* get_extractors(): the registered extractor plugins, in registration order
    exResult,       \* the returned ExtractionResult,
    \* ---- proxy.ProxyRotator shared by several threads
    _proxies,       \* self._proxies
    _rotation,      \* self._rotation
    _index,         \* self._index
    _failures,      \* self._failures
    _exhausted,     \* self._exhausted
    rtPc,           \* per thread: the call it is in and the statement it is at
    rtCalls,        \* calls begun so far
    rtMarked,       \* per proxy: mark_failed calls that have returned
    rtReset         \* the proxies mark_success was called with

rotVars   == <<rotator, rotRet, rotStreak, rotDoomed>>
fetchVars == <<fPc, proxy_list, retry_on_block, fRot, current_proxy, fAttempt,
               article, fExc, fResult, fCalls, fTrace, fMarks>>
htmlVars  == <<hPc, max_retries, auth, reqHeaders, attempt, last_exc, hResult,
               hRequests, hSent, hLastResp, hRefreshed>>
adVars    == <<aPc, classification, aPlugins, aPlugIdx, aResult, aStatic, aRenders, aFailed>>
batchVars == <<bPc, urls, on_error, max_workers, bTask, bFetched, bYielded, results,
               bPending, bResult>>
crawlVars == <<args, persisted, _seen_urls, _seen_feeds, _playwright_attempted,
               _pages_crawled, startPc, queue, cb, enqueued, renders, step>>
limitVars == <<_min_interval, _last_request_at, _lock, clock, wPc, wLocal, assigned, wCalls>>
poolVars == <<max_contexts, _max_contexts, _enabled, _local, ctxClosed, ctxMade, lastUse, poolCalls, poolCall>>
detectVars == <<dbHtml, dbStatus, dbWhole, dbAppends>>
feedVars == <<xml_text, feedResult>>
urltextVars == <<urlText, urlNorm>>
extractVars == <<exWords, extractors, exResult>>
rotthreadsVars == <<_proxies, _rotation, _index, _failures, _exhausted, rtPc, rtCalls, rtMarked, rtReset>>
vars == <<rotVars, fetchVars, htmlVars, adVars, batchVars, crawlVars, limitVars, poolVars, detectVars, feedVars, urltextVars, extractVars, rotthreadsVars>>

\* what each component leaves alone
rotOthers   == <<fetchVars, htmlVars, adVars, batchVars, crawlVars, limitVars,
                poolVars, detectVars, feedVars, urltextVars, extractVars, rotthreadsVars>>
fetchOthers == <<rotVars, htmlVars, adVars, batchVars, crawlVars, limitVars,
                poolVars, detectVars, feedVars, urltextVars, extractVars, rotthreadsVars>>
htmlOthers  == <<rotVars, fetchVars, adVars, batchVars, crawlVars, limitVars,
                poolVars, detectVars, feedVars, urltextVars, extractVars, rotthreadsVars>>
adOthers    == <<rotVars, fetchVars, htmlVars, batchVars, crawlVars, limitVars,
                poolVars, detectVars, feedVars, urltextVars, extractVars, rotthreadsVars>>
batchOthers == <<rotVars, fetchVars, htmlVars, adVars, crawlVars, limitVars,
                poolVars, detectVars, feedVars, urltextVars, extractVars, rotthreadsVars>>
crawlOthers == <<rotVars, fetchVars, htmlVars, adVars, batchVars, limitVars,
                poolVars, detectVars, feedVars, urltextVars, extractVars, rotthreadsVars>>
limitOthers == <<rotVars, fetchVars, htmlVars, adVars, batchVars, crawlVars,
                poolVars, detectVars, feedVars, urltextVars, extractVars, rotthreadsVars>>
poolOthers == <<rotVars, fetchVars, htmlVars, adVars, batchVars, crawlVars, limitVars, detectVars, feedVars, urltextVars, extractVars, rotthreadsVars>>
detectOthers == <<rotVars, fetchVars, htmlVars, adVars, batchVars, crawlVars, limitVars, poolVars, feedVars, urltextVars, extractVars, rotthreadsVars>>
feedOthers == <<rotVars, fetchVars, htmlVars, adVars, batchVars, crawlVars, limitVars, poolVars, detectVars, urltextVars, extractVars, rotthreadsVars>>
urltextOthers == <<rotVars, fetchVars, htmlVars, adVars, batchVars, crawlVars, limitVars, poolVars, detectVars, feedVars, extractVars, rotthreadsVars>>
extractOthers == <<rotVars, fetchVars, htmlVars, adVars, batchVars, crawlVars, limitVars, poolVars, detectVars, feedVars, urltextVars, rotthreadsVars>>
rotthreadsOthers == <<rotVars, fetchVars, htmlVars, adVars, batchVars, crawlVars, limitVars, poolVars, detectVars, feedVars, urltextVars, extractVars>>

-----------------------------------------------------------------------------
(* Bounds of the model *)

\* longest proxy list of pairwise distinct proxies handed to fetch
MaxProxies == 6
\* longest proxy list enumerated with every pattern of repeated entries
MaxDupLen == 3
\* longest proxy list of the free-running rotator
MaxRotProxies == 2
\* cap on one proxy's failure counter in the free-running rotator
MaxFailCount == 4

-----------------------------------------------------------------------------
(* Generic helpers *)

Range(s) == {s[i] : i \in DOMAIN s}

Min(a, b) == IF a < b THEN a ELSE b

MaxOf(S) == CHOOSE x \in S : \A y \in S : y <= x

\* the sequences over S of length at most n
RECURSIVE SeqsUpTo(_, _)
SeqsUpTo(S, n) ==
    IF n = 0 THEN {<<>>}
    ELSE SeqsUpTo(S, n - 1) \cup {Append(q, x) : q \in SeqsUpTo(S, n - 1), x \in S}

\* Python None where a proxy URL is expected
NoProxy == 0

NoRotator == [none |-> TRUE]

\* Proxy URLs are 1, 2, 3, ...; only their equality matters to the code.
\* The lists of length k in which the first occurrences of the URLs come in
\* increasing order: every pattern of repeated entries, up to renaming.
RECURSIVE PatternLists(_)
PatternLists(k) ==
    IF k = 0 THEN {<<>>}
    ELSE UNION {{Append(s, x) : x \in 1..(MaxOf(Range(s) \cup {0}) + 1)} :
                  s \in PatternLists(k - 1)}

DistinctList(n) == [i \in 1..n |-> i]

SameList(n) == [i \in 1..n |-> 1]

-----------------------------------------------------------------------------
(* proxy.py: ProxyRotator *)

_MAX_FAILURES == 3

NewRotator(proxies, rotation) ==
    [proxies   |-> proxies,
     rotation  |-> rotation,
     index     |-> 0,
     failures  |-> [p \in Range(proxies) |-> 0],
     exhausted |-> [p \in Range(proxies) |-> FALSE]]

ActiveProxies(r) == SelectSeq(r.proxies, LAMBDA p : ~r.exhausted[p])

\* the values get_proxy() can return (random.choice is a free choice)
GetProxy(r) ==
    LET active == ActiveProxies(r) IN
    IF active = <<>> THEN {NoProxy}
    ELSE IF r.rotation = "random" THEN Range(active)
    ELSE {active[(r.index % Len(active)) + 1]}

\* the outcomes of rotate(): the rotator afterwards and the value returned
Rotate(r) ==
    LET active == ActiveProxies(r) IN
    IF active = <<>> THEN {[rot |-> r, ret |-> NoProxy]}
    ELSE IF r.rotation = "random" THEN {[rot |-> r, ret |-> p] : p \in Range(active)}
    ELSE LET i == (r.index + 1) % Len(active) IN
         {[rot |-> [r EXCEPT !.index = i], ret |-> active[(i % Len(active)) + 1]]}

MarkFailedNoCount(r, p) == r

MarkFailed(r, p) ==
    IF p \notin DOMAIN r.failures THEN r
    ELSE LET n == r.failures[p] + 1 IN
         [r EXCEPT !.failures[p] = n,
                   !.exhausted[p] = IF n >= _MAX_FAILURES THEN TRUE ELSE @]

MarkSuccessRevives(r, p) ==
    IF p \in DOMAIN r.failures
    THEN [r EXCEPT !.failures[p] = 0, !.exhausted[p] = FALSE]
    ELSE r

MarkSuccess(r, p) ==
    IF p \in DOMAIN r.failures THEN [r EXCEPT !.failures[p] = 0] ELSE r

HasProxies(r) == ActiveProxies(r) # <<>>

-----------------------------------------------------------------------------
(* The rotator under arbitrary call sequences *)

RotArgs == 1..(MaxRotProxies + 1)

RotIdle ==
    /\ rotator = NoRotator
    /\ rotRet = NoProxy
    /\ rotStreak = <<>>
    /\ rotDoomed = <<>>

RotGetProxy ==
    /\ rotator # NoRotator
    /\ UNCHANGED rotOthers
    /\ \E p \in GetProxy(rotator) : rotRet' = p
    /\ UNCHANGED <<rotator, rotStreak, rotDoomed>>

RotRotate ==
    /\ rotator # NoRotator
    /\ UNCHANGED rotOthers
    /\ \E o \in Rotate(rotator) :
          /\ rotator' = o.rot
          /\ rotRet' = o.ret
    /\ UNCHANGED <<rotStreak, rotDoomed>>

RotMarkFailed ==
    /\ rotator # NoRotator
    /\ UNCHANGED rotOthers
    /\ \E p \in RotArgs :
          /\ p \in DOMAIN rotator.failures => rotator.failures[p] < MaxFailCount
          /\ rotator' = MarkFailed(rotator, p)
          /\ rotStreak' = [rotStreak EXCEPT ![p] = Min(@ + 1, _MAX_FAILURES)]
          /\ rotDoomed' = [rotDoomed EXCEPT ![p] = @ \/ rotStreak[p] + 1 >= _MAX_FAILURES]
    /\ rotRet' = NoProxy

RotMarkSuccess ==
    /\ rotator # NoRotator
    /\ UNCHANGED rotOthers
    /\ \E p \in RotArgs :
          /\ rotator' = MarkSuccess(rotator, p)
          /\ rotStreak' = [rotStreak EXCEPT ![p] = 0]
    /\ rotRet' = NoProxy
    /\ UNCHANGED rotDoomed

-----------------------------------------------------------------------------
(* extractors/block_detection.py: detect_block *)

\* A page is what the detector reads of an HTML text: its visible word
\* count, the bot-protection fingerprint its text matches ("none" when no
\* pattern matches) and its number of external <script src> tags.
Page(wc, marker, scripts) == [wc |-> wc, marker |-> marker, scripts |-> scripts]

CleanPage      == Page(300, "none", 2)
SparsePage     == Page(100, "none", 0)
EmptyPage      == Page(5, "none", 0)
SoftBlockPage  == Page(25, "none", 7)
CloudflarePage == Page(12, "cloudflare", 1)
CaptchaPage    == Page(400, "captcha", 3)
DataDomePage   == Page(40, "datadome", 1)
PerimeterXPage == Page(40, "perimeterx", 1)
AkamaiPage     == Page(250, "akamai", 8)
NoBody         == Page(0, "none", 0)

Pages == {CleanPage, SparsePage, EmptyPage, SoftBlockPage, CloudflarePage,
          CaptchaPage, DataDomePage, PerimeterXPage, AkamaiPage}

DetectBlockSparseOnly(page, status_code) ==
    IF status_code \in {401, 403, 407} /\ page.wc < 200 THEN "ip_ban"
    ELSE IF page.wc < 30 /\ page.scripts > 6 THEN "soft_block"
    ELSE IF status_code = 200 /\ page.wc < 20 THEN "empty"
    ELSE "none"

\* block_type of the BlockResult, "none" when is_blocked is false
DetectBlock(page, status_code) ==
    IF status_code \in {401, 403, 407} /\ page.wc < 200 THEN "ip_ban"
    ELSE IF page.marker = "cloudflare" THEN "cloudflare"
    ELSE IF page.marker = "captcha" THEN "captcha"
    ELSE IF page.marker = "datadome" THEN "datadome"
    ELSE IF page.marker = "perimeterx" THEN "perimeterx"
    ELSE IF page.marker = "akamai" THEN "akamai"
    ELSE IF page.wc < 30 /\ page.scripts > 6 THEN "soft_block"
    ELSE IF status_code = 200 /\ page.wc < 20 THEN "empty"
    ELSE "none"

-----------------------------------------------------------------------------
(* query.py: extract, FetchError, fetch *)

NoArticle == [none |-> TRUE]
NoExc     == [none |-> TRUE]

ExtractNeverBlocked(page) ==
    [page |-> page, is_blocked |-> FALSE, block_type |-> "none"]

\* the ArticleSchema fields the fetch logic reads
Extract(page) ==
    LET block == DetectBlock(page, 200) IN
    [page |-> page, is_blocked |-> block # "none", block_type |-> block]

\* FetchError(status, body); status 0 when no response was received
FetchError(status, body) == [status |-> status, body |-> body]

\* what one _do_fetch(proxy) call can end in
FetchErrors ==
    {FetchError(403, b) : b \in {NoBody, SparsePage, CleanPage}}
      \cup {FetchError(404, b) : b \in {NoBody, CleanPage, CloudflarePage}}
      \cup {FetchError(503, b) : b \in {SparsePage, CaptchaPage}}
      \cup {FetchError(0, NoBody)}

DoFetchOutcomes ==
    {[ok |-> TRUE, article |-> Extract(p)] : p \in Pages}
      \cup {[ok |-> FALSE, exc |-> e] : e \in FetchErrors}

IsBlockedError(exc) == DetectBlock(exc.body, exc.status) # "none"

MaxBlockRetriesUncapped(list) == Len(list)

MaxBlockRetries(list) == IF list # <<>> THEN Min(5, Len(list)) ELSE 0

\* the class of an outcome, for the trace
OutcomeClass(o) ==
    IF o.ok THEN (IF o.article.is_blocked THEN "blocked_article" ELSE "ok_article")
    ELSE (IF IsBlockedError(o.exc) THEN "blocked_error" ELSE "other_error")

ProxyLists ==
    UNION {PatternLists(k) : k \in 0..MaxDupLen}
      \cup {DistinctList(n) : n \in 0..MaxProxies}
      \cup {SameList(n) : n \in 0..MaxProxies}

FetchIdle ==
    /\ fPc = "idle"
    /\ proxy_list = <<>>
    /\ retry_on_block = FALSE
    /\ fRot = NoRotator
    /\ current_proxy = NoProxy
    /\ fAttempt = 0
    /\ article = NoArticle
    /\ fExc = NoExc
    /\ fResult = [kind |-> "none"]
    /\ fCalls = 0
    /\ fTrace = <<>>
    /\ fMarks = {}

\* lines 797-800: the tail every normal exit of fetch runs through
FetchReturn(rot, cur, art, marks) ==
    LET credit == rot # NoRotator /\ cur # NoProxy /\ ~art.is_blocked IN
    /\ fRot' = IF credit THEN MarkSuccess(rot, cur) ELSE rot
    /\ fMarks' = IF credit THEN marks \cup {<<"success", cur>>} ELSE marks
    /\ fResult' = [kind |-> "return", article |-> art]
    /\ fPc' = "done"

FetchRaise(exc) ==
    /\ fResult' = [kind |-> "raise", exc |-> exc]
    /\ fPc' = "done"

\* lines 751-753 and 778-780: mark the current proxy failed, then rotate
FailAndRotate ==
    LET failed == IF current_proxy # NoProxy
                  THEN MarkFailed(fRot, current_proxy) ELSE fRot
        marks  == IF current_proxy # NoProxy
                  THEN fMarks \cup {<<"failed", current_proxy>>} ELSE fMarks
    IN {[rot |-> o.rot, cur |-> o.ret, marks |-> marks] : o \in Rotate(failed)}

\* lines 693-776: the rotator, the first _do_fetch and where it leads
FetchFirst ==
    /\ fPc = "first"
    /\ UNCHANGED fetchOthers
    /\ LET rot == IF proxy_list # <<>>
                  THEN NewRotator(proxy_list, "round_robin") ELSE NoRotator
       IN \E cur \in (IF rot # NoRotator THEN GetProxy(rot) ELSE {NoProxy}) :
          \E o \in DoFetchOutcomes :
             /\ current_proxy' = cur
             /\ fCalls' = 1
             /\ fTrace' = <<<<cur, OutcomeClass(o)>>>>
             /\ fAttempt' = 0
             /\ IF o.ok
                THEN /\ article' = o.article
                     /\ fExc' = NoExc
                     /\ IF retry_on_block /\ rot # NoRotator /\ o.article.is_blocked
                        THEN /\ fPc' = "artloop"
                             /\ fRot' = rot
                             /\ fMarks' = {}
                             /\ UNCHANGED fResult
                        ELSE FetchReturn(rot, cur, o.article, {})
                ELSE /\ article' = NoArticle
                     /\ fRot' = rot
                     /\ fMarks' = {}
                     /\ IF retry_on_block /\ rot # NoRotator /\ IsBlockedError(o.exc)
                        THEN /\ fPc' = "errloop"
                             /\ fExc' = o.exc
                             /\ UNCHANGED fResult
                        ELSE /\ fExc' = NoExc
                             /\ FetchRaise(o.exc)
    /\ UNCHANGED <<proxy_list, retry_on_block>>

\* lines 777-795: one iteration of the retry loop entered on a blocked article
ArtLoopStep ==
    /\ fPc = "artloop"
    /\ UNCHANGED fetchOthers
    /\ fAttempt < MaxBlockRetries(proxy_list)
    /\ \E fr \in FailAndRotate :
          /\ current_proxy' = fr.cur
          /\ IF fr.cur = NoProxy \/ ~HasProxies(fr.rot)
             THEN /\ FetchReturn(fr.rot, fr.cur, article, fr.marks)
                  /\ UNCHANGED <<article, fAttempt, fCalls, fTrace>>
             ELSE \E o \in DoFetchOutcomes :
                  /\ fCalls' = fCalls + 1
                  /\ fTrace' = Append(fTrace, <<fr.cur, OutcomeClass(o)>>)
                  /\ IF ~o.ok
                     THEN /\ FetchRaise(o.exc)
                          /\ fRot' = fr.rot
                          /\ fMarks' = fr.marks
                          /\ UNCHANGED <<article, fAttempt>>
                     ELSE /\ article' = o.article
                          /\ IF ~o.article.is_blocked
                             THEN /\ FetchReturn(MarkSuccess(fr.rot, fr.cur), fr.cur, o.article,
                                                 fr.marks \cup {<<"success", fr.cur>>})
                                  /\ UNCHANGED fAttempt
                             ELSE /\ fAttempt' = fAttempt + 1
                                  /\ fRot' = fr.rot
                                  /\ fMarks' = fr.marks
                                  /\ UNCHANGED <<fPc, fResult>>
    /\ UNCHANGED <<proxy_list, retry_on_block, fExc>>

\* lines 777, 797-800: the loop has run max_block_retries times
ArtLoopExit ==
    /\ fPc = "artloop"
    /\ UNCHANGED fetchOthers
    /\ fAttempt >= MaxBlockRetries(proxy_list)
    /\ FetchReturn(fRot, current_proxy, article, fMarks)
    /\ UNCHANGED <<proxy_list, retry_on_block, current_proxy, fAttempt, article,
                   fExc, fCalls, fTrace>>

\* lines 750-772: one iteration of the retry loop entered on a blocked FetchError
ErrLoopStep ==
    /\ fPc = "errloop"
    /\ UNCHANGED fetchOthers
    /\ fAttempt < MaxBlockRetries(proxy_list)
    /\ \E fr \in FailAndRotate :
          /\ current_proxy' = fr.cur
          /\ IF fr.cur = NoProxy \/ ~HasProxies(fr.rot)
             THEN /\ FetchRaise(fExc)
                  /\ fRot' = fr.rot
                  /\ fMarks' = fr.marks
                  /\ UNCHANGED <<article, fAttempt, fCalls, fTrace>>
             ELSE \E o \in DoFetchOutcomes :
                  /\ fCalls' = fCalls + 1
                  /\ fTrace' = Append(fTrace, <<fr.cur, OutcomeClass(o)>>)
                  /\ IF ~o.ok
                     THEN /\ fRot' = fr.rot
                          /\ fMarks' = fr.marks
                          /\ UNCHANGED article
                          /\ IF IsBlockedError(o.exc)
                             THEN /\ fAttempt' = fAttempt + 1
                                  /\ UNCHANGED <<fPc, fResult>>
                             ELSE /\ FetchRaise(o.exc)
                                  /\ UNCHANGED fAttempt
                     ELSE /\ article' = o.article
                          /\ IF ~o.article.is_blocked
                             THEN /\ fRot' = MarkSuccess(fr.rot, fr.cur)
                                  /\ fMarks' = fr.marks \cup {<<"success", fr.cur>>}
                                  /\ fResult' = [kind |-> "return", article |-> o.article]
                                  /\ fPc' = "done"
                                  /\ UNCHANGED fAttempt
                             ELSE /\ fAttempt' = fAttempt + 1
                                  /\ fRot' = fr.rot
                                  /\ fMarks' = fr.marks
                                  /\ UNCHANGED <<fPc, fResult>>
    /\ UNCHANGED <<proxy_list, retry_on_block, fExc>>

\* lines 750, 773: the loop has run max_block_retries times; the first error is re-raised
ErrLoopExit ==
    /\ fPc = "errloop"
    /\ UNCHANGED fetchOthers
    /\ fAttempt >= MaxBlockRetries(proxy_list)
    /\ FetchRaise(fExc)
    /\ UNCHANGED <<proxy_list, retry_on_block, fRot, current_proxy, fAttempt, article,
                   fExc, fCalls, fTrace, fMarks>>

-----------------------------------------------------------------------------
(* auth.py: AuthSession *)

NoAuth == [none |-> TRUE]

\* an absent header
NoVal == <<>>

Bearer(token) == <<"Bearer", token>>

\* "; ".join(f"{k}={v}") for the one cookie, sid, the model's sessions carry
CookieHeader(sid) == <<"sid", sid>>

EmptyHeaders == [Authorization |-> NoVal, Cookie |-> NoVal]

\* An AuthSession: bearer_token ("" for None), the Authorization entry of its
\* headers dict (NoVal when the dict is empty), the value of its sid cookie
\* ("" when the dict is empty) and what its refresh callback does.
AuthSession(token, hdr, sid, refresh) ==
    [bearer_token |-> token, headers |-> hdr, cookies |-> sid, refresh |-> refresh]

RefreshKinds == {"none", "str", "dict_bearer", "dict_headers", "dict_cookies", "raises"}

\* apply_headers(url, headers), lines 41-47
ApplyHeaders(a, h) ==
    LET h1 == IF a.bearer_token # "" /\ h.Authorization = NoVal
              THEN [h EXCEPT !.Authorization = Bearer(a.bearer_token)] ELSE h
        h2 == IF a.headers # NoVal THEN [h1 EXCEPT !.Authorization = a.headers] ELSE h1
        h3 == IF a.cookies # "" /\ h2.Cookie = NoVal
              THEN [h2 EXCEPT !.Cookie = CookieHeader(a.cookies)] ELSE h2
    IN h3

\* refresh_if_needed(), lines 56-73
RefreshIfNeeded(a) ==
    IF a.refresh \in {"none", "raises"} THEN a
    ELSE IF a.refresh \in {"str", "dict_bearer"} THEN [a EXCEPT !.bearer_token = "tok_new"]
    ELSE IF a.refresh = "dict_headers" THEN [a EXCEPT !.headers = <<"Token", "fresh">>]
    ELSE [a EXCEPT !.cookies = "new"]

-----------------------------------------------------------------------------
(* query.py: fetch_html *)

_RETRY_CODES == {429, 500, 502, 503, 504}

\* what the server (or the network) answers to one request
Responses ==
    {[kind |-> "ok", code |-> 200]}
      \cup {[kind |-> "undecodable", code |-> 200]}
      \cup {[kind |-> "http", code |-> c] : c \in {401, 404, 429, 503}}
      \cup {[kind |-> "url", code |-> 0], [kind |-> "network", code |-> 0]}

\* the FetchError the code builds for a failed attempt
ErrorOf(resp) == [kind |-> resp.kind, status |-> resp.code]

ExhaustedError == [kind |-> "exhausted", status |-> 0]

SchemeError == [kind |-> "scheme", status |-> 0]

\* range(max_retries + 1), line 216
LoopBound(n) == n + 1

RetryAllowedOnLast(a, n) == a <= n

\* attempt < max_retries, lines 244, 246, 277, 289
RetryAllowed(a, n) == a < n

HtmlIdle ==
    /\ hPc = "idle"
    /\ max_retries = 0
    /\ auth = NoAuth
    /\ reqHeaders = EmptyHeaders
    /\ attempt = 0
    /\ last_exc = NoExc
    /\ hResult = [kind |-> "none"]
    /\ hRequests = 0
    /\ hSent = [headers |-> EmptyHeaders, auth |-> NoAuth, after_refresh |-> FALSE]
    /\ hLastResp = [kind |-> "none", code |-> 0]
    /\ hRefreshed = FALSE

HtmlReturn ==
    /\ hResult' = [kind |-> "return"]
    /\ hPc' = "done"

HtmlRaise(exc) ==
    /\ hResult' = [kind |-> "raise", exc |-> exc]
    /\ hPc' = "done"

\* lines 178-215: scheme check, the Request object, the auth headers
HtmlStart ==
    /\ hPc = "start"
    /\ UNCHANGED htmlOthers
    /\ \/ /\ HtmlRaise(SchemeError)
          /\ UNCHANGED <<reqHeaders, attempt>>
       \/ /\ reqHeaders' = IF auth # NoAuth THEN ApplyHeaders(auth, EmptyHeaders)
                           ELSE EmptyHeaders
          /\ attempt' = 0
          /\ hPc' = "loop"
          /\ UNCHANGED hResult
    /\ UNCHANGED <<max_retries, auth, last_exc, hRequests, hSent, hLastResp, hRefreshed>>

\* lines 216-298: one iteration of the retry loop
HtmlAttempt ==
    /\ hPc = "loop"
    /\ UNCHANGED htmlOthers
    /\ attempt < LoopBound(max_retries)
    /\ \E resp \in Responses :
          LET refreshing == resp.kind = "http" /\ resp.code = 401
                              /\ auth # NoAuth /\ auth.refresh # "none"
              auth2      == IF refreshing THEN RefreshIfNeeded(auth) ELSE auth
              headers2   == IF refreshing THEN ApplyHeaders(auth2, reqHeaders) ELSE reqHeaders
              retry      == RetryAllowed(attempt, max_retries)
          IN /\ hRequests' = hRequests + 1
             /\ hSent' = [headers |-> reqHeaders, auth |-> auth, after_refresh |-> hRefreshed]
             /\ hLastResp' = resp
             /\ auth' = auth2
             /\ reqHeaders' = headers2
             /\ hRefreshed' = (refreshing /\ auth.refresh # "raises")
             /\ IF resp.kind = "ok"
                THEN /\ HtmlReturn
                     /\ UNCHANGED <<attempt, last_exc>>
                ELSE IF resp.kind = "undecodable"
                THEN /\ HtmlRaise(ErrorOf(resp))
                     /\ UNCHANGED <<attempt, last_exc>>
                ELSE IF refreshing /\ retry
                THEN /\ attempt' = attempt + 1
                     /\ UNCHANGED <<last_exc, hPc, hResult>>
                ELSE IF retry /\ (resp.kind = "http" => resp.code \in _RETRY_CODES)
                THEN /\ attempt' = attempt + 1
                     /\ last_exc' = ErrorOf(resp)
                     /\ UNCHANGED <<hPc, hResult>>
                ELSE /\ HtmlRaise(ErrorOf(resp))
                     /\ UNCHANGED <<attempt, last_exc>>
    /\ UNCHANGED max_retries

\* lines 300-301: the loop ran out without returning or raising
HtmlExhausted ==
    /\ hPc = "loop"
    /\ UNCHANGED htmlOthers
    /\ attempt >= LoopBound(max_retries)
    /\ HtmlRaise(IF last_exc # NoExc THEN last_exc ELSE ExhaustedError)
    /\ UNCHANGED <<max_retries, auth, reqHeaders, attempt, last_exc, hRequests,
                   hSent, hLastResp, hRefreshed>>

-----------------------------------------------------------------------------
(* extractors/adaptive.py: classify_page *)

_MIN_CONTENT_WORDS == 150

\* the PageSignals fields the classifier and the engine read; amp_url is
\* modelled by its presence
PageSignals(spa, cookie, paywall, amp, meta, bwc) ==
    [is_js_spa |-> spa, is_cookie_walled |-> cookie, is_paywalled |-> paywall,
     amp_url |-> amp, has_meta_title |-> meta, body_word_count |-> bwc]

Classification(type, strategy, sig) ==
    [page_type |-> type, recommended_strategy |-> strategy, signals |-> sig]

ClassifyPageCookieFirst(sig) ==
    IF sig.is_cookie_walled THEN Classification("cookie_walled", "playwright", sig)
    ELSE IF sig.is_js_spa
    THEN Classification("js_spa", IF sig.amp_url THEN "amp" ELSE "playwright", sig)
    ELSE IF sig.body_word_count >= _MIN_CONTENT_WORDS
    THEN Classification("static_html", "static", sig)
    ELSE Classification("unknown", IF sig.amp_url THEN "amp" ELSE "mobile_ua", sig)

\* classify_page on the signals of _detect_signals
ClassifyPage(sig) ==
    IF sig.is_js_spa
    THEN Classification("js_spa", IF sig.amp_url THEN "amp" ELSE "playwright", sig)
    ELSE IF sig.is_cookie_walled THEN Classification("cookie_walled", "playwright", sig)
    ELSE IF sig.is_paywalled /\ sig.body_word_count < 500
    THEN Classification("paywalled", "playwright", sig)
    ELSE IF sig.amp_url /\ sig.body_word_count < _MIN_CONTENT_WORDS
    THEN Classification("static_html", "amp", sig)
    ELSE IF sig.body_word_count >= _MIN_CONTENT_WORDS
    THEN Classification("static_html", "static", sig)
    ELSE IF sig.has_meta_title /\ sig.body_word_count < _MIN_CONTENT_WORDS
    THEN Classification("unknown", IF sig.amp_url THEN "amp" ELSE "mobile_ua", sig)
    ELSE Classification("static_html", "static", sig)

-----------------------------------------------------------------------------
(* extractors/adaptive.py: adaptive_fetch_html *)

NoClassification == [none |-> TRUE]

BodyWordCounts == {0, 149, 150, 499, 500}

\* the signals _detect_signals can report: the paywall probe runs only on
\* pages that are not cookie-walled
SignalSets ==
    {PageSignals(spa, cookie, paywall, amp, meta, bwc) :
        spa \in BOOLEAN, cookie \in BOOLEAN, paywall \in BOOLEAN,
        amp \in BOOLEAN, meta \in BOOLEAN, bwc \in BodyWordCounts}
      \ {sg \in [is_js_spa : BOOLEAN, is_cookie_walled : {TRUE}, is_paywalled : {TRUE},
                 amp_url : BOOLEAN, has_meta_title : BOOLEAN,
                 body_word_count : BodyWordCounts] : TRUE}

\* _raw_word_count of the HTML a later step obtains
WordCounts == {0, 150, 193, 194, 600}

\* what a fetch, a render or a plugin can come back with: an exception, an
\* empty value (None or ""), or HTML with some raw word count
StepOutcomes ==
    {[kind |-> "fail", wc |-> 0], [kind |-> "empty", wc |-> 0]}
      \cup {[kind |-> "html", wc |-> w] : w \in WordCounts}

\* the registered strategy plugins are named after their position
PluginNamePool == <<"plugin_a", "plugin_b", "plugin_c", "plugin_d">>

\* the HTML a FetchResult carries, named by the step that obtained it
Html(from, plugin) == [from |-> from, plugin |-> plugin]

FetchResult(html, strategy_used) ==
    [kind |-> "return", html |-> html, strategy_used |-> strategy_used]

GoodStaticAnyLength(c) == c.recommended_strategy = "static"

\* lines 470-473
GoodStatic(c) ==
    /\ c.recommended_strategy = "static"
    /\ c.signals.body_word_count >= _MIN_CONTENT_WORDS

TryPlaywrightPropagates(o) == o

\* _try_playwright, lines 595-626: any failure of the renderer becomes None
TryPlaywright(o) == IF o.kind = "fail" THEN [kind |-> "empty", wc |-> 0] ELSE o

AdIdle ==
    /\ aPc = "idle"
    /\ classification = NoClassification
    /\ aPlugins = <<>>
    /\ aPlugIdx = 1
    /\ aResult = [kind |-> "none"]
    /\ aStatic = 0
    /\ aRenders = 0
    /\ aFailed = {}

AdReturn(html, strategy_used) ==
    /\ aResult' = FetchResult(html, strategy_used)
    /\ aPc' = "done"

AdRaise ==
    /\ aResult' = [kind |-> "raise"]
    /\ aPc' = "done"

\* lines 446-474: the initial static fetch, the classifier, the early return
AdStatic ==
    /\ aPc = "static"
    /\ UNCHANGED adOthers
    /\ aStatic' = aStatic + 1
    /\ \/ /\ AdRaise
          /\ UNCHANGED classification
       \/ \E sig \in SignalSets :
             LET c == ClassifyPage(sig) IN
             /\ classification' = c
             /\ IF GoodStatic(c)
                THEN AdReturn(Html("initial", ""), "static")
                ELSE /\ aPc' = "amp"
                     /\ UNCHANGED aResult
    /\ UNCHANGED <<aPlugins, aPlugIdx, aRenders, aFailed>>

\* lines 476-495: the AMP fetch
AdAmp ==
    /\ aPc = "amp"
    /\ UNCHANGED adOthers
    /\ IF classification.recommended_strategy = "amp" /\ classification.signals.amp_url
       THEN /\ aStatic' = aStatic + 1
            /\ \E o \in StepOutcomes \ {[kind |-> "empty", wc |-> 0]} :
                  /\ aFailed' = IF o.kind = "fail" THEN aFailed \cup {"amp"} ELSE aFailed
                  /\ IF o.kind = "html" /\ o.wc > classification.signals.body_word_count
                     THEN AdReturn(Html("amp", ""), "amp")
                     ELSE /\ aPc' = "mobile"
                          /\ UNCHANGED aResult
       ELSE /\ aPc' = "mobile"
            /\ UNCHANGED <<aResult, aStatic, aFailed>>
    /\ UNCHANGED <<classification, aPlugins, aPlugIdx, aRenders>>

\* lines 497-516: the mobile user-agent fetch
AdMobile ==
    /\ aPc = "mobile"
    /\ UNCHANGED adOthers
    /\ IF classification.recommended_strategy = "mobile_ua"
       THEN /\ aStatic' = aStatic + 1
            /\ \E o \in StepOutcomes \ {[kind |-> "empty", wc |-> 0]} :
                  /\ aFailed' = IF o.kind = "fail" THEN aFailed \cup {"mobile_ua"} ELSE aFailed
                  /\ IF o.kind = "html"
                          /\ 10 * o.wc > 13 * classification.signals.body_word_count
                     THEN AdReturn(Html("mobile_ua", ""), "mobile_ua")
                     ELSE /\ aPc' = "playwright"
                          /\ UNCHANGED aResult
       ELSE /\ aPc' = "playwright"
            /\ UNCHANGED <<aResult, aStatic, aFailed>>
    /\ UNCHANGED <<classification, aPlugins, aPlugIdx, aRenders>>

\* lines 518-535: the headless render the classifier asked for
AdPlaywright ==
    /\ aPc = "playwright"
    /\ UNCHANGED adOthers
    /\ IF classification.recommended_strategy = "playwright"
       THEN /\ aRenders' = aRenders + 1
            /\ \E o \in StepOutcomes :
                  LET pw_html == TryPlaywright(o) IN
                  /\ aFailed' = IF o.kind = "fail" THEN aFailed \cup {"render"} ELSE aFailed
                  /\ IF pw_html.kind = "fail"
                     THEN AdRaise
                     ELSE IF pw_html.kind = "html"
                               /\ pw_html.wc > classification.signals.body_word_count
                     THEN AdReturn(Html("render", ""), "playwright")
                     ELSE /\ aPc' = "fallback"
                          /\ UNCHANGED aResult
       ELSE /\ aPc' = "fallback"
            /\ UNCHANGED <<aResult, aRenders, aFailed>>
    /\ UNCHANGED <<classification, aPlugins, aPlugIdx, aStatic>>

AdFallbackAnyStrategy ==
    /\ aPc = "fallback"
    /\ UNCHANGED adOthers
    /\ IF classification.signals.body_word_count < _MIN_CONTENT_WORDS
       THEN /\ aRenders' = aRenders + 1
            /\ \E o \in StepOutcomes :
                  LET pw_html == TryPlaywright(o) IN
                  /\ aFailed' = IF o.kind = "fail" THEN aFailed \cup {"render"} ELSE aFailed
                  /\ IF pw_html.kind = "html"
                          /\ pw_html.wc > classification.signals.body_word_count
                     THEN AdReturn(Html("render", ""), "playwright_fallback")
                     ELSE /\ aPc' = "plugins"
                          /\ UNCHANGED aResult
       ELSE /\ aPc' = "plugins"
            /\ UNCHANGED <<aResult, aRenders, aFailed>>
    /\ UNCHANGED <<classification, aPlugins, aPlugIdx, aStatic>>

\* lines 537-557: the headless render tried on a thin page of any other strategy
AdFallback ==
    /\ aPc = "fallback"
    /\ UNCHANGED adOthers
    /\ IF /\ classification.recommended_strategy # "playwright"
          /\ classification.signals.body_word_count < _MIN_CONTENT_WORDS
       THEN /\ aRenders' = aRenders + 1
            /\ \E o \in StepOutcomes :
                  LET pw_html == TryPlaywright(o) IN
                  /\ aFailed' = IF o.kind = "fail" THEN aFailed \cup {"render"} ELSE aFailed
                  /\ IF pw_html.kind = "fail"
                     THEN AdRaise
                     ELSE IF pw_html.kind = "html"
                               /\ pw_html.wc > classification.signals.body_word_count
                     THEN AdReturn(Html("render", ""), "playwright_fallback")
                     ELSE /\ aPc' = "plugins"
                          /\ UNCHANGED aResult
       ELSE /\ aPc' = "plugins"
            /\ UNCHANGED <<aResult, aRenders, aFailed>>
    /\ UNCHANGED <<classification, aPlugins, aPlugIdx, aStatic>>

\* lines 559-580: one registered plugin is consulted
AdPlugin ==
    /\ aPc = "plugins"
    /\ UNCHANGED adOthers
    /\ aPlugIdx <= Len(aPlugins)
    /\ \/ \* can_handle returns False
          /\ aPlugIdx' = aPlugIdx + 1
          /\ UNCHANGED <<aPc, aResult, aFailed>>
       \/ \* can_handle raises: the outer handler ends the loop
          /\ aPlugIdx' = Len(aPlugins) + 1
          /\ aFailed' = aFailed \cup {"plugin"}
          /\ UNCHANGED <<aPc, aResult>>
       \/ \* can_handle returns True and the plugin fetches
          \E o \in StepOutcomes :
             /\ aFailed' = IF o.kind = "fail" THEN aFailed \cup {"plugin"} ELSE aFailed
             /\ IF o.kind = "html" /\ o.wc > classification.signals.body_word_count
                THEN /\ AdReturn(Html("plugin", aPlugins[aPlugIdx]), aPlugins[aPlugIdx])
                     /\ UNCHANGED aPlugIdx
                ELSE /\ aPlugIdx' = aPlugIdx + 1
                     /\ UNCHANGED <<aPc, aResult>>
    /\ UNCHANGED <<classification, aPlugins, aStatic, aRenders>>

\* lines 582-592: nothing improved on the initial fetch
AdBestEffort ==
    /\ aPc = "plugins"
    /\ UNCHANGED adOthers
    /\ aPlugIdx > Len(aPlugins)
    /\ AdReturn(Html("initial", ""), "static_best_effort")
    /\ UNCHANGED <<classification, aPlugins, aPlugIdx, aStatic, aRenders, aFailed>>

-----------------------------------------------------------------------------
(* query.py: fetch_batch *)

UrlNames == {"u1", "u2"}

\* Python None in a results slot
None == <<"None">>

\* the ArticleSchema fetch(url) returns
ArticleFor(url) == <<"article", url>>

Future(state, idx, value) == [state |-> state, idx |-> idx, value |-> value]

StoreInCompletionOrder(res, idx, art) == [res EXCEPT ![Len(bYielded) + 1] = art]

\* results[idx] = article, line 994
StoreResult(res, idx, art) == [res EXCEPT ![idx] = art]

Running == {i \in DOMAIN bTask : bTask[i].state = "running"}

Queued == {i \in DOMAIN bTask : bTask[i].state = "queued"}

Finished == {i \in DOMAIN bTask : bTask[i].state \in {"returned", "raised"}}

BatchIdle ==
    /\ bPc = "idle"
    /\ urls = <<>>
    /\ on_error = "skip"
    /\ max_workers = 1
    /\ bTask = <<>>
    /\ bFetched = <<>>
    /\ bYielded = <<>>
    /\ results = <<>>
    /\ bPending = NoExc
    /\ bResult = [kind |-> "none"]

\* lines 962-991: the argument check, the results list, the submissions
BatchStart ==
    /\ bPc = "start"
    /\ UNCHANGED batchOthers
    /\ IF on_error \notin {"skip", "raise", "include"}
       THEN /\ bResult' = [kind |-> "raise", exc |-> "ValueError"]
            /\ bPc' = "done"
            /\ UNCHANGED <<results, bTask>>
       ELSE /\ results' = [i \in DOMAIN urls |-> None]
            /\ bTask' = [i \in DOMAIN urls |-> Future("queued", i, None)]
            /\ bPc' = "collect"
            /\ UNCHANGED bResult
    /\ UNCHANGED <<urls, on_error, max_workers, bFetched, bYielded, bPending>>

\* a pool thread takes the oldest queued work item
WorkerStart ==
    /\ bPc \in {"collect", "shutdown"}
    /\ UNCHANGED batchOthers
    /\ Queued # {}
    /\ Cardinality(Running) < max_workers
    /\ LET i == CHOOSE j \in Queued : \A k \in Queued : j <= k IN
       bTask' = [bTask EXCEPT ![i].state = "running"]
    /\ UNCHANGED <<bPc, urls, on_error, max_workers, bFetched, bYielded, results,
                   bPending, bResult>>

\* lines 971-985: _fetch_one(idx, url) ends on a pool thread
WorkerFinish ==
    /\ bPc \in {"collect", "shutdown"}
    /\ UNCHANGED batchOthers
    /\ \E i \in Running :
          \/ /\ bFetched' = [bFetched EXCEPT ![i] = "ok"]
             /\ bTask' = [bTask EXCEPT ![i] = Future("returned", i, ArticleFor(urls[i]))]
          \/ /\ bFetched' = [bFetched EXCEPT ![i] = "failed"]
             /\ bTask' = [bTask EXCEPT ![i] =
                             IF on_error = "raise" THEN Future("raised", i, None)
                             ELSE Future("returned", i, None)]
    /\ UNCHANGED <<bPc, urls, on_error, max_workers, bYielded, results, bPending, bResult>>

\* lines 992-994: as_completed yields a finished future; its result is stored
BatchCollect ==
    /\ bPc = "collect"
    /\ UNCHANGED batchOthers
    /\ \E i \in Finished \ Range(bYielded) :
          /\ bYielded' = Append(bYielded, i)
          /\ IF bTask[i].state = "raised"
             THEN /\ bPending' = [kind |-> "FetchError", idx |-> i]
                  /\ bPc' = "shutdown"
                  /\ UNCHANGED results
             ELSE /\ results' = StoreResult(results, bTask[i].idx, bTask[i].value)
                  /\ UNCHANGED <<bPc, bPending>>
    /\ UNCHANGED <<urls, on_error, max_workers, bTask, bFetched, bResult>>

\* lines 987, 996-998: every future was yielded; the pool is joined, the list returned
BatchReturn ==
    /\ bPc = "collect"
    /\ UNCHANGED batchOthers
    /\ Range(bYielded) = DOMAIN bTask
    /\ bResult' = [kind |-> "return",
                   value |-> IF on_error = "include" THEN results
                             ELSE SelectSeq(results, LAMBDA r : r # None)]
    /\ bPc' = "done"
    /\ UNCHANGED <<urls, on_error, max_workers, bTask, bFetched, bYielded, results, bPending>>

\* line 987: the with block is left on an exception; its exit joins the pool first
BatchRaise ==
    /\ bPc = "shutdown"
    /\ UNCHANGED batchOthers
    /\ Finished = DOMAIN bTask
    /\ bResult' = [kind |-> "raise", exc |-> bPending]
    /\ bPc' = "done"
    /\ UNCHANGED <<urls, on_error, max_workers, bTask, bFetched, bYielded, results, bPending>>

-----------------------------------------------------------------------------
(* extractors/urlnorm.py and the URLs of the crawl *)

\* most pages max_pages allows, deepest max_depth
MaxPagesArg == 1
MaxDepthArg == 1

\* A URL: scheme, netloc as its labels, path, and what follows the path that
\* normalize_url drops (a fragment, a tracking parameter); "" if nothing.
Url(scheme, netloc, path, extra) ==
    [scheme |-> scheme, netloc |-> netloc, path |-> path, extra |-> extra]

StartHost == <<"blog", "example">>
CdnHost == <<"cdn", "blog", "example">>
PartnerHost == <<"partner", "example">>
OtherHost == <<"other", "example">>

start_url == Url("https", StartHost, "/", "")
HomeUtm == Url("https", StartHost, "/", "?utm_source=feed")
PageA == Url("https", StartHost, "/a", "")
PageB == Url("https", StartHost, "/b", "")
PageBTop == Url("https", StartHost, "/b", "#top")
CdnHome == Url("https", CdnHost, "/", "")
PartnerHome == Url("https", PartnerHost, "/", "")
OtherHome == Url("https", OtherHost, "/", "")
LogoPng == Url("https", StartHost, "/logo.png", "")
WpAdmin == Url("https", StartHost, "/wp-admin/x", "")
MailTo == Url("mailto", <<>>, "me@blog.example", "")

\* the URLs that documents of the crawl refer to
LinkUrls ==
    {start_url, HomeUtm, PageA, PageB, CdnHome, PartnerHome, OtherHome, LogoPng, WpAdmin, MailTo}

\* strips the fragment and the tracking parameters
normalize_url(u) == [u EXCEPT !.extra = ""]

NormUrls == {normalize_url(u) : u \in LinkUrls \cup {PageBTop}}

\* the path ends in one of NON_CONTENT_EXTENSIONS
is_non_content_url(u) == u.path \in {"/logo.png", "/sitemap.xml", "/feed.xml"}

\* the path matches one of _HARD_EXCLUDE_PATTERNS
HardExcluded(u) == u.path \in {"/wp-admin/x"}

\* netloc.endswith("." + d)
EndsWithDot(netloc, d) ==
    /\ Len(netloc) > Len(d)
    /\ SubSeq(netloc, Len(netloc) - Len(d) + 1, Len(netloc)) = d

\* _iter_start_requests probes three sitemap paths and the eight _FEED_PATHS,
\* all of them alike; the model follows the first path of each list
SitemapProbes == <<Url("https", StartHost, "/sitemap.xml", "")>>
FeedProbes == <<Url("https", StartHost, "/feed.xml", "")>>

\* <loc> entries of a sitemap index; href of <link rel=alternate> tags
ChildSitemaps ==
    {Url("https", StartHost, "/sitemap-posts.xml", ""), Url("https", OtherHost, "/sitemap.xml", "")}
AlternateFeeds ==
    {Url("https", StartHost, "/feed.xml", ""), Url("https", OtherHost, "/rss", "")}

-----------------------------------------------------------------------------
(* spiders/blog_spider.py: BlogSpider *)

\* the regular expressions handed to the spider, by the paths they match
NoRegex == {}

\* the spider arguments: every budget, depth and rendering mode
BaseArgs ==
    [max_pages : 0..MaxPagesArg,
     max_depth : 0..MaxDepthArg,
     render_js : {"auto", "always", "never"},
     allow_subdomains : {FALSE},
     extra_domains : {{}},
     exclude_regex : {NoRegex},
     resume : {FALSE}]

\* every domain policy, with a budget that lets the other hosts' pages in
DomainArgs ==
    [max_pages : {MaxPagesArg + 1},
     max_depth : {MaxDepthArg},
     render_js : {"never"},
     allow_subdomains : BOOLEAN,
     extra_domains : {{}, {PartnerHost}},
     exclude_regex : {NoRegex, {"/b"}},
     resume : {FALSE}]

\* resumed crawls
ResumeArgs ==
    [max_pages : 0..MaxPagesArg,
     max_depth : {MaxDepthArg},
     render_js : {"auto"},
     allow_subdomains : {FALSE},
     extra_domains : {{}},
     exclude_regex : {NoRegex},
     resume : {TRUE}]

\* out_dir before the crawl: the lines of seen_urls.txt, the urls of index.json
OutDirs ==
    [seen_file : {{}, {start_url}, {start_url, PageA}},
     index : {{}, {PageBTop}}]

EmptyOutDir == [seen_file |-> {}, index |-> {}]

\* self._allowed_domains_set
AllowedDomains(a) == {StartHost} \cup a.extra_domains

LoadSeenFileOnly(a, dir) == IF ~a.resume THEN {} ELSE dir.seen_file

\* _load_seen_urls: the lines of seen_urls.txt and the normalized urls of index.json
_load_seen_urls(a, dir) ==
    IF ~a.resume THEN {}
    ELSE dir.seen_file \cup {normalize_url(e) : e \in dir.index}

_should_crawl(a, u) ==
    /\ u.scheme \in {"http", "https"}
    /\ \/ u.netloc \in AllowedDomains(a)
       \/ /\ a.allow_subdomains
          /\ \E d \in AllowedDomains(a) : EndsWithDot(u.netloc, d)
    /\ ~is_non_content_url(u)
    /\ ~HardExcluded(u)
    /\ u.path \notin a.exclude_regex

\* scrapy.Request as the spider builds it; origin tells which statement built it
Request(kind, url, depth, priority, playwright, retry, errback, origin) ==
    [kind |-> kind, url |-> url, depth |-> depth, priority |-> priority,
     playwright |-> playwright, playwright_retry |-> retry, errback |-> errback,
     origin |-> origin]

SitemapRequest(url, priority, origin) ==
    Request("sitemap", url, 0, priority, FALSE, FALSE, TRUE, origin)

FeedRequest(url, priority, origin) ==
    Request("feed", url, 0, priority, FALSE, FALSE, TRUE, origin)

\* sitemap and feed entries use the default priority of _make_request
DefaultPriority == 0

_make_request(a, url, depth, priority, origin) ==
    Request("page", url, depth, priority, a.render_js = "always", FALSE, FALSE, origin)

_make_playwright_request(url, depth) ==
    Request("page", url, depth, 3, TRUE, TRUE, FALSE, "render")

\* the test of parse that hands a page to the headless renderer
ShouldRenderIgnoringHistory(a, r, needs_js, attempted) ==
    /\ a.render_js # "never"
    /\ a.render_js = "always" \/ needs_js

ShouldRender(a, r, needs_js, attempted) ==
    /\ ~r.playwright /\ ~r.playwright_retry /\ a.render_js # "never"
    /\ a.render_js = "always" \/ needs_js
    /\ r.url \notin attempted

\* the test of parse that starts link discovery
FollowsLinksAtMaxDepth(a, depth) == depth <= a.max_depth

FollowsLinks(a, depth) == depth < a.max_depth

\* Heuristics._content_score decomposes <nav>, <header>, <footer> and <aside>
\* in the soup it is handed; parse hands it the soup that _discover_links
\* searches afterwards.  soup_ok: BeautifulSoup(html) in parse did not raise.
NavStripped(soup_ok) == soup_ok

\* the callback that is running: which one, the depth of its response, the
\* loop it is in, and whether the soup it searches has lost its <nav> tags
NoCallback == [kind |-> "none", depth |-> 0, stage |-> "", stripped |-> FALSE]

Callback(kind, r, stage, stripped) ==
    [kind |-> kind, depth |-> r.depth, stage |-> stage, stripped |-> stripped]

NoStep == [what |-> "none"]

CrawlIdle ==
    /\ args = [none |-> TRUE]
    /\ persisted = EmptyOutDir
    /\ _seen_urls = {}
    /\ _seen_feeds = {}
    /\ _playwright_attempted = {}
    /\ _pages_crawled = 0
    /\ startPc = 0
    /\ queue = EmptyBag
    /\ cb = NoCallback
    /\ enqueued = <<>>
    /\ renders = <<>>
    /\ step = NoStep

Put(q, r) == q (+) SetToBag({r})

Take(q, r) == q (-) SetToBag({r})

\* the scheduler hands out the waiting request of the highest priority
HandedOut(r) == BagIn(r, queue) /\ \A q \in BagToSet(queue) : q.priority <= r.priority

\* the requests of a callback that can be answered next
Pending(kind) == {r \in BagToSet(queue) : r.kind = kind /\ HandedOut(r)}

\* _mark_seen; the line it appends to seen_urls.txt is read by the next crawl only
_mark_seen(norm) == _seen_urls' = _seen_urls \cup {norm}

\* _enqueue_feed
_enqueue_feed(q, feed_url, priority, origin) ==
    IF normalize_url(feed_url) \in _seen_feeds
    THEN /\ queue' = q
         /\ UNCHANGED _seen_feeds
    ELSE /\ _seen_feeds' = _seen_feeds \cup {normalize_url(feed_url)}
         /\ queue' = Put(q, FeedRequest(feed_url, priority, origin))

\* One iteration of the loops of parse_sitemap, parse_feed and _discover_links
\* over a URL: skip it, stop the callback, or mark it seen and yield its request.
VisitUrl(u, depth, priority, origin, after) ==
    LET norm == normalize_url(u) IN
    IF norm \in _seen_urls \/ ~_should_crawl(args, u)
    THEN /\ cb' = after
         /\ UNCHANGED <<_seen_urls, _pages_crawled, queue, enqueued>>
    ELSE IF _pages_crawled >= args.max_pages
    THEN /\ cb' = NoCallback
         /\ UNCHANGED <<_seen_urls, _pages_crawled, queue, enqueued>>
    ELSE /\ _mark_seen(norm)
         /\ _pages_crawled' = _pages_crawled + 1
         /\ queue' = Put(queue, _make_request(args, u, depth, priority, origin))
         /\ enqueued' = [enqueued EXCEPT ![norm] = @ + 1]
         /\ cb' = after

\* a URL the loops would yield a request for
Due(u) ==
    /\ normalize_url(u) \notin _seen_urls
    /\ _should_crawl(args, u)
    /\ _pages_crawled < args.max_pages


\* ---- _iter_start_requests, one request per resumption of the generator

StartSitemapProbe ==
    /\ UNCHANGED crawlOthers
    /\ cb = NoCallback
    /\ startPc \in 1..Len(SitemapProbes)
    /\ queue' = Put(queue, SitemapRequest(SitemapProbes[startPc], 10, "probe"))
    /\ startPc' = startPc + 1
    /\ step' = NoStep
    /\ UNCHANGED <<args, persisted, _seen_urls, _seen_feeds, _playwright_attempted,
                   _pages_crawled, cb, enqueued, renders>>

StartFeedProbe ==
    /\ UNCHANGED crawlOthers
    /\ cb = NoCallback
    /\ startPc - Len(SitemapProbes) \in 1..Len(FeedProbes)
    /\ _enqueue_feed(queue, FeedProbes[startPc - Len(SitemapProbes)], 9, "probe")
    /\ startPc' = startPc + 1
    /\ step' = NoStep
    /\ UNCHANGED <<args, persisted, _seen_urls, _playwright_attempted,
                   _pages_crawled, cb, enqueued, renders>>

StartUrl ==
    /\ UNCHANGED crawlOthers
    /\ cb = NoCallback
    /\ startPc = Len(SitemapProbes) + Len(FeedProbes) + 1
    /\ _mark_seen(normalize_url(start_url))
    /\ queue' = Put(queue, _make_request(args, start_url, 0, 5, "start"))
    /\ enqueued' = [enqueued EXCEPT ![normalize_url(start_url)] = @ + 1]
    /\ startPc' = startPc + 1
    /\ step' = NoStep
    /\ UNCHANGED <<args, persisted, _seen_feeds, _playwright_attempted,
                   _pages_crawled, cb, renders>>

\* ---- the answer to a request reaches its callback or its errback

DeliverSitemap ==
    /\ UNCHANGED crawlOthers
    /\ cb = NoCallback
    /\ \E r \in Pending("sitemap"),
          answer \in {"failed", "non200", "not_xml", "sitemapindex", "urlset"} :
          /\ queue' = Take(queue, r)
          /\ cb' = IF answer \in {"sitemapindex", "urlset"}
                   THEN Callback(answer, r, "loc", FALSE)
                   ELSE NoCallback
    /\ step' = NoStep
    /\ UNCHANGED <<args, persisted, _seen_urls, _seen_feeds, _playwright_attempted,
                   _pages_crawled, startPc, enqueued, renders>>

DeliverFeed ==
    /\ UNCHANGED crawlOthers
    /\ cb = NoCallback
    /\ \E r \in Pending("feed"), answer \in {"failed", "non200", "no_entries", "entries"} :
          /\ queue' = Take(queue, r)
          /\ cb' = IF answer = "entries" THEN Callback("feed", r, "entry", FALSE)
                   ELSE NoCallback
    /\ step' = NoStep
    /\ UNCHANGED <<args, persisted, _seen_urls, _seen_feeds, _playwright_attempted,
                   _pages_crawled, startPc, enqueued, renders>>

\* what parse saw and did: the kind of response, needs_js(html), whether the
\* URL had not been handed to the renderer before, whether parse re-enqueued
\* it for rendering, the outcome of scoring and extraction, the reason handed
\* to _log_skip ("" if _log_skip was not called)
PageStep(answer, needs_js, fresh, rendered, verdict, skip) ==
    [what |-> "page", answer |-> answer, needs_js |-> needs_js, fresh |-> fresh,
     rendered |-> rendered, verdict |-> verdict, skip |-> skip]

Answer(r) == IF r.playwright \/ r.playwright_retry THEN "rendered" ELSE "static"

\* parse up to link discovery; a page request has no errback
DeliverPage ==
    /\ UNCHANGED crawlOthers
    /\ cb = NoCallback
    /\ \E r \in Pending("page") :
          LET fresh == r.url \notin _playwright_attempted IN
          \/ /\ queue' = Take(queue, r)
             /\ step' = PageStep("failed", FALSE, fresh, FALSE, "", "")
             /\ UNCHANGED <<_playwright_attempted, renders, cb>>
          \/ \E bad \in {"not_modified_304", "http_status", "non_html_content_type"} :
                /\ queue' = Take(queue, r)
                /\ step' = PageStep(bad, FALSE, fresh, FALSE, "", bad)
                /\ UNCHANGED <<_playwright_attempted, renders, cb>>
          \/ \E needs_js \in BOOLEAN :
                /\ ShouldRender(args, r, needs_js, _playwright_attempted)
                /\ _playwright_attempted' = _playwright_attempted \cup {r.url}
                /\ queue' = Put(Take(queue, r), _make_playwright_request(r.url, r.depth))
                /\ renders' = [renders EXCEPT ![r.url] = @ + 1]
                /\ step' = PageStep(Answer(r), needs_js, fresh, TRUE, "", "")
                /\ UNCHANGED cb
          \/ \E needs_js \in BOOLEAN, soup_ok \in BOOLEAN,
                verdict \in {"item", "extraction_returned_empty",
                             "include_regex_mismatch", "low_article_score"} :
                /\ ~ShouldRender(args, r, needs_js, _playwright_attempted)
                /\ queue' = Take(queue, r)
                /\ step' = PageStep(Answer(r), needs_js, fresh, FALSE, verdict,
                                    IF verdict = "item" THEN "" ELSE verdict)
                /\ cb' = IF FollowsLinks(args, r.depth)
                         THEN Callback("links", r, "next", NavStripped(soup_ok))
                         ELSE NoCallback
                /\ UNCHANGED <<_playwright_attempted, renders>>
    /\ UNCHANGED <<args, persisted, _seen_urls, _seen_feeds, _pages_crawled, startPc, enqueued>>

\* ---- the callbacks, one element of the document per step

\* parse_sitemap on a sitemap index: every <loc> is requested as a sitemap
ParseSitemapIndex ==
    /\ UNCHANGED crawlOthers
    /\ cb.kind = "sitemapindex"
    /\ \/ /\ \E child_url \in ChildSitemaps :
                \* an index is not followed into a child that is still waiting
                /\ ~BagIn(SitemapRequest(child_url, 8, "index"), queue)
                /\ queue' = Put(queue, SitemapRequest(child_url, 8, "index"))
          /\ UNCHANGED cb
       \/ /\ cb' = NoCallback
          /\ UNCHANGED queue
    /\ step' = NoStep
    /\ UNCHANGED <<args, persisted, _seen_urls, _seen_feeds, _playwright_attempted,
                   _pages_crawled, startPc, enqueued, renders>>

\* parse_sitemap on a regular sitemap
ParseSitemapUrlset ==
    /\ UNCHANGED crawlOthers
    /\ cb.kind = "urlset"
    /\ \/ /\ \E url \in LinkUrls :
                VisitUrl(url, 0, DefaultPriority, "sitemap", cb)
       \/ /\ cb' = NoCallback
          /\ UNCHANGED <<_seen_urls, _pages_crawled, queue, enqueued>>
    /\ step' = NoStep
    /\ UNCHANGED <<args, persisted, _seen_feeds, _playwright_attempted, startPc, renders>>

ParseFeed ==
    /\ UNCHANGED crawlOthers
    /\ cb.kind = "feed"
    /\ \/ /\ \E url \in LinkUrls :
                VisitUrl(url, 0, DefaultPriority, "feed", cb)
       \/ /\ cb' = NoCallback
          /\ UNCHANGED <<_seen_urls, _pages_crawled, queue, enqueued>>
    /\ step' = NoStep
    /\ UNCHANGED <<args, persisted, _seen_feeds, _playwright_attempted, startPc, renders>>

\* _discover_links, first loop: <link rel=next>
DiscoverNext ==
    /\ UNCHANGED crawlOthers
    /\ cb.kind = "links" /\ cb.stage = "next"
    /\ \/ /\ \E absolute \in LinkUrls :
                VisitUrl(absolute, cb.depth + 1, 5, "next", cb)
       \/ /\ cb' = [cb EXCEPT !.stage = "alternate"]
          /\ UNCHANGED <<_seen_urls, _pages_crawled, queue, enqueued>>
    /\ step' = NoStep
    /\ UNCHANGED <<args, persisted, _seen_feeds, _playwright_attempted, startPc, renders>>

\* _discover_links, second loop: <link rel=alternate> of type rss or atom
DiscoverFeeds ==
    /\ UNCHANGED crawlOthers
    /\ cb.kind = "links" /\ cb.stage = "alternate"
    /\ \/ /\ \E absolute \in AlternateFeeds : _enqueue_feed(queue, absolute, 7, "alternate")
          /\ UNCHANGED cb
       \/ /\ cb' = [cb EXCEPT !.stage = "a"]
          /\ UNCHANGED <<_seen_feeds, queue>>
    /\ step' = NoStep
    /\ UNCHANGED <<args, persisted, _seen_urls, _playwright_attempted, _pages_crawled,
                   startPc, enqueued, renders>>

AnchorStep(due, request) == [what |-> "a", due |-> due, request |-> request]

\* _discover_links, third loop: the <a href> tags left in the soup.  in_nav:
\* the tag sits inside <nav>, <header>, <footer> or <aside> in the page's HTML.
DiscoverAnchors ==
    /\ UNCHANGED crawlOthers
    /\ cb.kind = "links" /\ cb.stage = "a"
    /\ \/ \E absolute \in LinkUrls, in_nav \in BOOLEAN :
                /\ IF in_nav /\ cb.stripped
                   THEN /\ UNCHANGED cb
                        /\ UNCHANGED <<_seen_urls, _pages_crawled, queue, enqueued>>
                   ELSE VisitUrl(absolute, cb.depth + 1, DefaultPriority, "a", cb)
                /\ step' = AnchorStep(Due(absolute), BagCardinality(queue') > BagCardinality(queue))
       \/ /\ cb' = NoCallback
          /\ step' = NoStep
          /\ UNCHANGED <<_seen_urls, _pages_crawled, queue, enqueued>>
    /\ UNCHANGED <<args, persisted, _seen_feeds, _playwright_attempted, startPc, renders>>

\* ---- what the scheduler holds and has been handed

\* the content-page requests waiting in the scheduler
PageRequests == {r \in BagToSet(queue) : r.kind = "page"}

\* the requests a step hands to the scheduler
NewRequests == {r \in BagToSet(queue') : CopiesIn(r, queue') > CopiesIn(r, queue)}

\* the requests a step takes from the scheduler
TakenRequests == {r \in BagToSet(queue) : CopiesIn(r, queue') < CopiesIn(r, queue)}

RECURSIVE SumOver(_, _)
SumOver(f, S) ==
    IF S = {} THEN 0
    ELSE LET x == CHOOSE y \in S : TRUE IN f[x] + SumOver(f, S \ {x})

\* the content-page requests yielded so far, re-renders aside
PagesEnqueued == SumOver(enqueued, DOMAIN enqueued)

\* the host test of _should_crawl
InDomainSet(a, netloc) ==
    \/ netloc \in AllowedDomains(a)
    \/ /\ a.allow_subdomains
       /\ \E d \in AllowedDomains(a) : EndsWithDot(netloc, d)

-----------------------------------------------------------------------------
(* rate_limit.py: DomainRateLimiter *)

\* most threads sharing the limiter, most wait() calls, last clock tick,
\* longest interval (1 / rate_per_domain, in ticks)
MaxThreads == 2
MaxCalls == 3
MaxTime == 2
MaxInterval == 2

NoThread == 0
Threads == 1..MaxThreads

\* urlparse(url).netloc.lower() of the URLs handed to wait(); "" has no netloc
Domains == {"", "a.example", "b.example"}

NoLocals == [domain |-> "", now |-> 0, last |-> 0, next_allowed |-> 0, delay |-> 0,
             asleep_at |-> 0]

\* self._last_request_at.get(domain, 0.0)
LastRequestAt(domain) ==
    IF domain \in DOMAIN _last_request_at THEN _last_request_at[domain] ELSE 0

\* max(now, last + self._min_interval)
NextAllowed(now, last, min_interval) ==
    IF now > last + min_interval THEN now ELSE last + min_interval

LockIgnored(lock) == TRUE

\* threading.Lock: acquire() returns when no thread holds the lock
LockFree(lock) == lock = NoThread

Assigned(domain) == IF domain \in DOMAIN assigned THEN assigned[domain] ELSE <<>>

LimitIdle ==
    /\ _min_interval = 0
    /\ _last_request_at = <<>>
    /\ _lock = NoThread
    /\ clock = 0
    /\ wPc = <<>>
    /\ wLocal = <<>>
    /\ assigned = <<>>
    /\ wCalls = 0

\* wait(url) is called; a URL without a netloc returns at once
WaitCall ==
    /\ UNCHANGED limitOthers
    /\ wCalls < MaxCalls
    /\ \E t \in Threads, domain \in Domains :
          /\ wPc[t] = "idle"
          /\ wLocal' = [wLocal EXCEPT ![t] = [NoLocals EXCEPT !.domain = domain]]
          /\ wPc' = [wPc EXCEPT ![t] = IF domain = "" THEN "idle" ELSE "lock"]
    /\ wCalls' = wCalls + 1
    /\ UNCHANGED <<_min_interval, _last_request_at, _lock, clock, assigned>>

\* with self._lock:
WaitAcquire ==
    /\ UNCHANGED limitOthers
    /\ \E t \in Threads :
          /\ wPc[t] = "lock"
          /\ LockFree(_lock)
          /\ _lock' = t
          /\ wPc' = [wPc EXCEPT ![t] = "read"]
    /\ UNCHANGED <<_min_interval, _last_request_at, clock, wLocal, assigned, wCalls>>

\* now = time.monotonic(); last = self._last_request_at.get(domain, 0.0)
WaitRead ==
    /\ UNCHANGED limitOthers
    /\ \E t \in Threads :
          /\ wPc[t] = "read"
          /\ wLocal' = [wLocal EXCEPT ![t].now = clock,
                                      ![t].last = LastRequestAt(wLocal[t].domain)]
          /\ wPc' = [wPc EXCEPT ![t] = "write"]
    /\ UNCHANGED <<_min_interval, _last_request_at, _lock, clock, assigned, wCalls>>

\* next_allowed = ...; delay = ...; self._last_request_at[domain] = next_allowed
WaitWrite ==
    /\ UNCHANGED limitOthers
    /\ \E t \in Threads :
          /\ wPc[t] = "write"
          /\ LET l == wLocal[t]
                 next_allowed == NextAllowed(l.now, l.last, _min_interval)
             IN /\ wLocal' = [wLocal EXCEPT ![t].next_allowed = next_allowed,
                                            ![t].delay = next_allowed - l.now]
                /\ _last_request_at' = (l.domain :> next_allowed) @@ _last_request_at
                /\ assigned' = (l.domain :> Append(Assigned(l.domain), next_allowed)) @@ assigned
          /\ wPc' = [wPc EXCEPT ![t] = "unlock"]
    /\ UNCHANGED <<_min_interval, _lock, clock, wCalls>>

\* the with block ends; time.sleep(delay) starts if delay > 0
WaitRelease ==
    /\ UNCHANGED limitOthers
    /\ \E t \in Threads :
          /\ wPc[t] = "unlock"
          /\ _lock' = IF _lock = t THEN NoThread ELSE _lock
          /\ wLocal' = [wLocal EXCEPT ![t].asleep_at = clock]
          /\ wPc' = [wPc EXCEPT ![t] = IF wLocal[t].delay > 0 THEN "sleep" ELSE "idle"]
    /\ UNCHANGED <<_min_interval, _last_request_at, clock, assigned, wCalls>>

\* time.sleep(delay) returns, not before delay has passed
WaitWake ==
    /\ UNCHANGED limitOthers
    /\ \E t \in Threads :
          /\ wPc[t] = "sleep"
          /\ clock >= wLocal[t].asleep_at + wLocal[t].delay
          /\ wPc' = [wPc EXCEPT ![t] = "idle"]
    /\ UNCHANGED <<_min_interval, _last_request_at, _lock, clock, wLocal, assigned, wCalls>>

\* time passes
Tick ==
    /\ UNCHANGED limitOthers
    /\ clock < MaxTime
    /\ clock' = clock + 1
    /\ UNCHANGED <<_min_interval, _last_request_at, _lock, wPc, wLocal, assigned, wCalls>>

-----------------------------------------------------------------------------
(* playwright_pool.py: PlaywrightPool *)

\* most threads using the pool, most get_context calls, largest max_contexts
MaxPoolThreads == 2
MaxPoolCalls == 4
MaxContextsArg == 2

PoolThreads == 1..MaxPoolThreads

\* the keys (user agent, proxy, headers) that callers ask contexts for
PoolKeys == {"k1", "k2", "k3"}

\* _ThreadState before its browser is launched
NoThreadState == [browser |-> "none", contexts |-> <<>>]

NoPoolCall == [kind |-> "none"]

\* what a get_context call did: the thread, what it returned, the keys whose
\* contexts it evicted, and the keys held before the call, least recently
\* used first by the order of the calls
PoolCall(t, kind, ctx, evicted, held) ==
    [kind |-> kind, thread |-> t, ctx |-> ctx, evicted |-> evicted, held |-> held]

PoolIdle ==
    /\ max_contexts = 0
    /\ _max_contexts = 0
    /\ _enabled = FALSE
    /\ _local = <<>>
    /\ ctxClosed = {}
    /\ ctxMade = 0
    /\ lastUse = <<>>
    /\ poolCalls = 0
    /\ poolCall = NoPoolCall

KeysOf(contexts) == {contexts[i].key : i \in DOMAIN contexts}

CtxOf(contexts, key) ==
    (CHOOSE e \in Range(contexts) : e.key = key).ctx

TouchInPlace(contexts, key) == contexts

\* ctx = state.contexts.pop(key); state.contexts[key] = ctx
Touch(contexts, key) ==
    Append(SelectSeq(contexts, LAMBDA e : e.key # key), [key |-> key, ctx |-> CtxOf(contexts, key)])

\* the entries that the loop `while len(contexts) > max: popitem(last=False)` removes
Overflow(contexts, max) ==
    IF Len(contexts) > max THEN SubSeq(contexts, 1, Len(contexts) - max) ELSE <<>>

\* the keys a thread holds, ordered by the call that last asked for them
RECURSIVE ByLastUse(_, _)
ByLastUse(keys, use) ==
    IF keys = {} THEN <<>>
    ELSE LET k == CHOOSE x \in keys : \A y \in keys : use[x] <= use[y]
         IN <<k>> \o ByLastUse(keys \ {k}, use)

\* get_context(key) on thread t, from call to return
GetContext ==
    /\ UNCHANGED poolOthers
    /\ poolCalls < MaxPoolCalls
    /\ poolCalls' = poolCalls + 1
    /\ \E t \in PoolThreads, key \in PoolKeys :
          LET state == _local[t]
              held == ByLastUse(KeysOf(state.contexts), lastUse[t])
          IN
          IF ~_enabled
          THEN /\ poolCall' = PoolCall(t, "None", 0, <<>>, held)
               /\ UNCHANGED <<_local, ctxClosed, ctxMade, lastUse>>
          ELSE IF key \in KeysOf(state.contexts)
          THEN /\ _local' = [_local EXCEPT ![t].contexts = Touch(state.contexts, key)]
               /\ lastUse' = [lastUse EXCEPT ![t][key] = poolCalls + 1]
               /\ poolCall' = PoolCall(t, "ctx", CtxOf(state.contexts, key), <<>>, held)
               /\ UNCHANGED <<ctxClosed, ctxMade>>
          ELSE IF state.browser = "closed"
          THEN \* browser.new_context raises on the browser that close() closed
               /\ poolCall' = PoolCall(t, "raise", 0, <<>>, held)
               /\ UNCHANGED <<_local, ctxClosed, ctxMade, lastUse>>
          ELSE LET ctx == ctxMade + 1
                   grown == Append(state.contexts, [key |-> key, ctx |-> ctx])
                   old == Overflow(grown, _max_contexts)
               IN /\ ctxMade' = ctx
                  /\ _local' = [_local EXCEPT ![t] =
                                  [browser |-> "open",
                                   contexts |-> SubSeq(grown, Len(old) + 1, Len(grown))]]
                  /\ ctxClosed' = ctxClosed \cup {old[i].ctx : i \in DOMAIN old}
                  /\ lastUse' = [lastUse EXCEPT ![t][key] = poolCalls + 1]
                  /\ poolCall' = PoolCall(t, "ctx", ctx, [i \in DOMAIN old |-> old[i].key], held)
    /\ UNCHANGED <<max_contexts, _max_contexts, _enabled>>

\* close() on thread t: every context, the browser and playwright are closed
PoolClose ==
    /\ UNCHANGED poolOthers
    /\ \E t \in PoolThreads :
          /\ _local[t] # NoThreadState
          /\ _local[t].browser # "closed"
          /\ ctxClosed' = ctxClosed \cup {e.ctx : e \in Range(_local[t].contexts)}
          /\ _local' = [_local EXCEPT ![t] =
                          [browser |-> IF @.browser = "none" THEN "none" ELSE "closed",
                           contexts |-> <<>>]]
    /\ poolCall' = NoPoolCall
    /\ UNCHANGED <<max_contexts, _max_contexts, _enabled, ctxMade, lastUse, poolCalls>>
-----------------------------------------------------------------------------
(* extractors/block_detection.py: detect_block on a page that grows *)

\* most pieces of clean content appended to a page
MaxAppends == 3

\* the status codes detect_block is called with
StatusCodes == {200, 403, 404}

\* content that matches no fingerprint and is not blocked by itself
CleanContents == {CleanPage, SparsePage}

\* what the detector reads of the text H + C: the tags of C are stripped like
\* those of H, every pattern that matches in H still matches, and the external
\* <script src> tags of both are counted
Concat(page, content) ==
    Page(page.wc + content.wc,
         IF page.marker # "none" THEN page.marker ELSE content.marker,
         page.scripts + content.scripts)

DetectIdle ==
    /\ dbHtml = NoBody
    /\ dbStatus = 0
    /\ dbWhole = NoBody
    /\ dbAppends = 0

\* clean content is appended to the text and detect_block runs on the whole
AppendClean ==
    /\ UNCHANGED detectOthers
    /\ dbAppends < MaxAppends
    /\ \E content \in CleanContents : dbWhole' = Concat(dbWhole, content)
    /\ dbAppends' = dbAppends + 1
    /\ UNCHANGED <<dbHtml, dbStatus>>
-----------------------------------------------------------------------------
(* extractors/feed.py: parse_feed *)

\* most <item> and most <entry> elements of a document
MaxItems == 2

\* An input string, as the parser sees it.  form: "xml" is well-formed XML
\* without declarations, "dtd" carries a DOCTYPE without entities, "entities"
\* declares an entity, "external" refers to an external entity, "malformed"
\* is not well-formed.  root: the root tag.  channel: the root has a <channel>.
\* items: per <item>, where its URL is; entries: per <entry>, where its URL is.
FeedDocs ==
    [form : {"xml", "dtd", "entities", "external", "malformed"},
     root : {"rss", "feed", "{http://www.w3.org/2005/Atom}feed", "rdf"},
     channel : BOOLEAN,
     items : SeqsUpTo({"link", "guid", "none"}, MaxItems),
     entries : SeqsUpTo({"href", "none"}, MaxItems)]

NoFeedResult == [kind |-> "none"]

\* defusedxml.ElementTree.fromstring with its defaults: forbid_dtd=False,
\* forbid_entities=True, forbid_external=True
Fromstring(doc) ==
    CASE doc.form = "malformed" -> [kind |-> "raise", exc |-> "ParseError"]
      [] doc.form = "entities" -> [kind |-> "raise", exc |-> "EntitiesForbidden"]
      [] doc.form = "external" -> [kind |-> "raise", exc |-> "ExternalReferenceForbidden"]
      [] OTHER -> [kind |-> "root", root |-> doc]

\* except ET.ParseError: the defusedxml exceptions derive from ValueError
CaughtByParseFeed(exc) == exc = "ParseError"

\* the FeedEntry list of _parse_rss: the items that have a URL
_parse_rss(root) ==
    LET idx == SelectSeq([i \in DOMAIN root.items |-> i], LAMBDA i : root.items[i] # "none")
    IN [k \in DOMAIN idx |-> <<"item", idx[k]>>]

\* the FeedEntry list of _parse_atom: the entries that have an alternate link
_parse_atom(root) ==
    LET idx == SelectSeq([i \in DOMAIN root.entries |-> i], LAMBDA i : root.entries[i] # "none")
    IN [k \in DOMAIN idx |-> <<"entry", idx[k]>>]

HasRssTag(root) == root.root = "rss"

HasFeedTag(root) == root.root \in {"feed", "{http://www.w3.org/2005/Atom}feed"}

parse_feed(doc) ==
    LET parsed == Fromstring(doc) IN
    IF parsed.kind = "raise"
    THEN IF CaughtByParseFeed(parsed.exc)
         THEN [kind |-> "return", value |-> <<>>]
         ELSE [kind |-> "raise", exc |-> parsed.exc]
    ELSE LET root == parsed.root IN
         IF (HasRssTag(root) \/ root.channel) /\ _parse_rss(root) # <<>>
         THEN [kind |-> "return", value |-> _parse_rss(root)]
         ELSE IF HasFeedTag(root)
         THEN [kind |-> "return", value |-> _parse_atom(root)]
         ELSE [kind |-> "return",
               value |-> IF _parse_rss(root) # <<>> THEN _parse_rss(root)
                         ELSE _parse_atom(root)]

FeedIdle ==
    /\ xml_text = [none |-> TRUE]
    /\ feedResult = NoFeedResult

\* parse_feed(xml_text), from call to return or raise
ParseFeedCall ==
    /\ UNCHANGED feedOthers
    /\ feedResult = NoFeedResult
    /\ feedResult' = parse_feed(xml_text)
    /\ UNCHANGED xml_text
-----------------------------------------------------------------------------
(* extractors/urlnorm.py: normalize_url on the text of a URL *)

\* most ":port" suffixes of a netloc, most query parameters, most times
\* normalize_url is applied to its own result
MaxPorts == 2
MaxParams == 2
MaxNormalizations == 2

\* The text of a URL, part by part, in the order the parts are written:
\* scheme "://" host (":" port)* path [" "] ("?" key "=" value ("&" ...)*) ("#" fragment).
\* scheme "" is a text that starts with "//"; space: a space follows the path.
UrlTexts ==
    [scheme : {"", "HTTP", "http", "https"},
     host : {"Host", "host"},
     ports : SeqsUpTo({"80", "443", "8080"}, MaxPorts),
     path : {"", "/a"},
     space : BOOLEAN,
     query : SeqsUpTo({<<"a", "1">>, <<"a", "0">>, <<"A", "3">>, <<"utm_source", "x">>}, MaxParams),
     fragment : {"", "f"}]

\* str.lower() on the schemes, hosts and keys of the model
Lower(s) ==
    CASE s = "HTTP" -> "http"
      [] s = "Host" -> "host"
      [] s = "A" -> "a"
      [] OTHER -> s

\* _DEFAULT_PORTS.get(scheme), as the text of the port; "" if there is none
DefaultPort(scheme) ==
    CASE scheme = "http" -> "80"
      [] scheme = "https" -> "443"
      [] OTHER -> ""

\* url.strip(): the space after the path ends the text if nothing follows it
Strip(u) ==
    IF u.space /\ u.query = <<>> /\ u.fragment = "" THEN [u EXCEPT !.space = FALSE] ELSE u

\* lines 109-116: netloc.rpartition(":") splits off the last suffix only
StripDefaultPort(ports, scheme) ==
    IF ports # <<>> /\ ports[Len(ports)] = DefaultPort(scheme)
    THEN SubSeq(ports, 1, Len(ports) - 1)
    ELSE ports

\* the order of sorted() on the keys of the model: "A" < "a" < "utm_source"
KeyRank(k) == CASE k = "A" -> 1 [] k = "a" -> 2 [] OTHER -> 3

\* lines 119-129: parse_qs groups the values by key in the order they appear,
\* tracking keys are dropped, urlencode(sorted(...), doseq=True) writes the rest
CleanQuery(query) ==
    LET kept == SelectSeq(query, LAMBDA kv : Lower(kv[1]) # "utm_source")
        of(rank) == SelectSeq(kept, LAMBDA kv : KeyRank(kv[1]) = rank)
    IN of(1) \o of(2) \o of(3)

\* normalize_url(url), for a text that urlparse accepts
NormalizeText(url) ==
    LET parsed == Strip(url)
        scheme == IF Lower(parsed.scheme) = "" THEN "https" ELSE Lower(parsed.scheme)
    IN [scheme |-> scheme,
        host |-> Lower(parsed.host),
        ports |-> StripDefaultPort(parsed.ports, scheme),
        path |-> parsed.path,
        space |-> parsed.space,
        query |-> CleanQuery(parsed.query),
        fragment |-> ""]

UrlTextIdle ==
    /\ urlText = [none |-> TRUE]
    /\ urlNorm = <<>>

\* normalize_url is called on the text, or on its own last result
NormalizeCall ==
    /\ UNCHANGED urltextOthers
    /\ Len(urlNorm) < MaxNormalizations
    /\ urlNorm' = Append(urlNorm, NormalizeText(IF urlNorm = <<>> THEN urlText
                                                ELSE urlNorm[Len(urlNorm)]))
    /\ UNCHANGED urlText
-----------------------------------------------------------------------------
(* extractors/main_content.py: extract_main_content *)

_READABILITY_MIN_WORDS == 50
_TRAFILATURA_MIN_WORDS == 30

\* most registered extractor plugins, highest plugin priority
MaxExtractors == 2
MaxPriority == 2

\* word counts of _try_readability (None, counted 0, below its threshold),
\* of _try_trafilatura and of dom_heuristic_extract
ReadabilityWords == {0, 50, 60}
TrafilaturaWords == {0, 30, 70, 84}
DomWords == {0, 10, 40}

\* an extractor plugin on this page: can_extract(html, url), and the words of
\* what extract(html, url) returns: 0 for None or "", -1 if it raises
ExtractorPlugins ==
    [name : {"p1", "p2"}, priority : 1..MaxPriority, can : BOOLEAN, words : {-1, 0, 20, 100}]

ExtractionResult(method, word_count) == [method |-> method, word_count |-> word_count]
NoExtraction == ExtractionResult("none", 0)

\* sorted(get_extractors(), key=lambda p: p.priority, reverse=True): stable
RECURSIVE ByPriority(_, _)
ByPriority(plugins, p) ==
    IF p < 1 THEN <<>>
    ELSE SelectSeq(plugins, LAMBDA x : x.priority = p) \o ByPriority(plugins, p - 1)

\* lines 343-379: what the built-in tiers produce
BuiltIn(r_wc, t_wc, d_wc) ==
    IF r_wc >= _READABILITY_MIN_WORDS /\ t_wc >= _TRAFILATURA_MIN_WORDS
    THEN IF 10 * t_wc >= 14 * r_wc
         THEN ExtractionResult("trafilatura", t_wc)
         ELSE ExtractionResult("readability", r_wc)
    ELSE IF r_wc >= _READABILITY_MIN_WORDS THEN ExtractionResult("readability", r_wc)
    ELSE IF t_wc >= _TRAFILATURA_MIN_WORDS THEN ExtractionResult("trafilatura", t_wc)
    ELSE ExtractionResult("dom_heuristic", d_wc)

\* lines 356-373: the tiers that end in a return statement
ReturnsFromTier(r_wc, t_wc) ==
    r_wc >= _READABILITY_MIN_WORDS \/ t_wc >= _TRAFILATURA_MIN_WORDS

\* lines 384-398: the loop over the sorted plugins, from index i on
RECURSIVE ConsultPlugins(_, _, _)
ConsultPlugins(result, plugins, i) ==
    IF i > Len(plugins) THEN result
    ELSE LET plugin == plugins[i]
         IN IF plugin.can /\ plugin.words > result.word_count
            THEN ExtractionResult(plugin.name, plugin.words)
            ELSE ConsultPlugins(result, plugins, i + 1)

extract_main_content(r_wc, t_wc, d_wc, plugins) ==
    IF ReturnsFromTier(r_wc, t_wc)
    THEN BuiltIn(r_wc, t_wc, d_wc)
    ELSE ConsultPlugins(BuiltIn(r_wc, t_wc, d_wc), ByPriority(plugins, MaxPriority), 1)

ExtractIdle ==
    /\ exWords = [none |-> TRUE]
    /\ extractors = <<>>
    /\ exResult = NoExtraction

ExtractMainContent ==
    /\ UNCHANGED extractOthers
    /\ exResult = NoExtraction
    /\ exResult' = extract_main_content(exWords.r, exWords.t, exWords.d, extractors)
    /\ UNCHANGED <<exWords, extractors>>
-----------------------------------------------------------------------------
(* proxy.py: one ProxyRotator called from several threads *)

\* threads sharing the rotator, calls they make in all
MaxRotThreads == 2
MaxRotCalls == 3

RotThreads == 1..MaxRotThreads

\* a thread between two statements of a method: the method, the statement it
\* is about to run, its argument and the value it has read
NotCalling == [op |-> "none", at |-> "", proxy |-> "", val |-> 0]
Calling(op, at, proxy, val) == [op |-> op, at |-> at, proxy |-> proxy, val |-> val]

RotThreadsIdle ==
    /\ _proxies = <<>>
    /\ _rotation = ""
    /\ _index = 0
    /\ _failures = <<>>
    /\ _exhausted = <<>>
    /\ rtPc = <<>>
    /\ rtCalls = 0
    /\ rtMarked = <<>>
    /\ rtReset = {}

\* _active_proxies()
_active_proxies == SelectSeq(_proxies, LAMBDA p : ~_exhausted[p])

\* mark_failed(proxy), lines 111-113: the membership test, and the load of
\* self._failures[proxy] that "+= 1" starts with
MarkFailedLoad(t) ==
    /\ UNCHANGED rotthreadsOthers
    /\ rtPc[t] = NotCalling
    /\ rtCalls < MaxRotCalls
    /\ rtCalls' = rtCalls + 1
    /\ \E proxy \in Range(_proxies) \cup {"unknown"} :
          rtPc' = [rtPc EXCEPT ![t] =
                      IF proxy \notin DOMAIN _failures THEN NotCalling
                      ELSE Calling("mark_failed", "store", proxy, _failures[proxy])]
    /\ UNCHANGED <<_proxies, _rotation, _index, _failures, _exhausted, rtMarked, rtReset>>

\* line 113: the store that ends "self._failures[proxy] += 1"
MarkFailedStore(t) ==
    /\ UNCHANGED rotthreadsOthers
    /\ rtPc[t].op = "mark_failed" /\ rtPc[t].at = "store"
    /\ _failures' = [_failures EXCEPT ![rtPc[t].proxy] = rtPc[t].val + 1]
    /\ rtPc' = [rtPc EXCEPT ![t].at = "test"]
    /\ UNCHANGED <<_proxies, _rotation, _index, _exhausted, rtCalls, rtMarked, rtReset>>

\* lines 114-115
MarkFailedTest(t) ==
    /\ UNCHANGED rotthreadsOthers
    /\ rtPc[t].op = "mark_failed" /\ rtPc[t].at = "test"
    /\ _exhausted' = IF _failures[rtPc[t].proxy] >= _MAX_FAILURES
                     THEN [_exhausted EXCEPT ![rtPc[t].proxy] = TRUE]
                     ELSE _exhausted
    /\ rtMarked' = [rtMarked EXCEPT ![rtPc[t].proxy] = @ + 1]
    /\ rtPc' = [rtPc EXCEPT ![t] = NotCalling]
    /\ UNCHANGED <<_proxies, _rotation, _index, _failures, rtCalls, rtReset>>

\* mark_success(proxy): one store
MarkSuccessCall(t) ==
    /\ UNCHANGED rotthreadsOthers
    /\ rtPc[t] = NotCalling
    /\ rtCalls < MaxRotCalls
    /\ rtCalls' = rtCalls + 1
    /\ \E proxy \in Range(_proxies) \cup {"unknown"} :
          /\ _failures' = IF proxy \in DOMAIN _failures
                          THEN [_failures EXCEPT ![proxy] = 0] ELSE _failures
          /\ rtReset' = rtReset \cup {proxy}
    /\ UNCHANGED <<_proxies, _rotation, _index, _exhausted, rtPc, rtMarked>>

\* rotate(), lines 97-102: the active list is built, self._index is loaded and
\* (self._index + 1) % len(active) is computed
RotateLoad(t) ==
    /\ UNCHANGED rotthreadsOthers
    /\ rtPc[t] = NotCalling
    /\ rtCalls < MaxRotCalls
    /\ rtCalls' = rtCalls + 1
    /\ rtPc' = [rtPc EXCEPT ![t] =
                   IF _active_proxies = <<>> \/ _rotation = "random" THEN NotCalling
                   ELSE Calling("rotate", "store", "", (_index + 1) % Len(_active_proxies))]
    /\ UNCHANGED <<_proxies, _rotation, _index, _failures, _exhausted, rtMarked, rtReset>>

\* line 102: the store into self._index
RotateStore(t) ==
    /\ UNCHANGED rotthreadsOthers
    /\ rtPc[t].op = "rotate" /\ rtPc[t].at = "store"
    /\ _index' = rtPc[t].val
    /\ rtPc' = [rtPc EXCEPT ![t] = NotCalling]
    /\ UNCHANGED <<_proxies, _rotation, _failures, _exhausted, rtCalls, rtMarked, rtReset>>

-----------------------------------------------------------------------------
(* The claims *)

\* C1: with on_error = "include", fetch_batch returns a list of exactly
\* len(urls) entries; entry i is the article fetched for urls[i], or None if
\* that fetch failed, whatever the order in which the workers completed.
C1_BatchIncludePositional ==
    (bPc = "done" /\ on_error = "include") =>
        /\ bResult.kind = "return"
        /\ Len(bResult.value) = Len(urls)
        /\ \A i \in DOMAIN urls :
              bResult.value[i] = IF bFetched[i] = "ok" THEN ArticleFor(urls[i]) ELSE None

\* three urls whose futures were yielded out of input order, one fetch failed
C1_Witness ==
    /\ bPc = "done"
    /\ on_error = "include"
    /\ Len(urls) = 3
    /\ urls[1] # urls[2]
    /\ bYielded = <<2, 3, 1>>
    /\ bFetched = <<"ok", "failed", "ok">>

\* C2: with n >= 1 proxies and retry_on_block on, one fetch call makes at
\* most 1 + min(5, n) _do_fetch attempts, on the blocked-article path and on
\* the blocked-FetchError path alike; with no proxy list it makes one.
C2_BlockRetryBudget ==
    LET n == Len(proxy_list) IN
    /\ (retry_on_block /\ n >= 1) => fCalls <= 1 + (IF n < 5 THEN n ELSE 5)
    /\ n = 0 => fCalls <= 1

\* six proxies, the first attempt a blocked FetchError, five retries made
C2_Witness ==
    /\ fPc = "done"
    /\ Len(proxy_list) = 6
    /\ fCalls = 6
    /\ fTrace[1][2] = "blocked_error"
    /\ fTrace[6][2] = "blocked_article"

\* C3 (as claimed): when every attempt the budget allows is blocked and the
\* last attempt produced an article, fetch returns that article
\* (is_blocked = true) instead of raising, also when the first attempt ended
\* in a block-classified FetchError.
C3_ReturnsLastBlockedArticle ==
    LET n == Len(proxy_list) IN
    ( /\ fPc = "done"
      /\ retry_on_block
      /\ n >= 1
      /\ fCalls = 1 + (IF n < 5 THEN n ELSE 5)
      /\ \A i \in DOMAIN fTrace : fTrace[i][2] \in {"blocked_article", "blocked_error"}
      /\ fTrace[Len(fTrace)][2] = "blocked_article" )
    => /\ fResult = [kind |-> "return", article |-> article]
       /\ article.is_blocked

C5_SecondProxyResolves ==
    ( /\ fPc = "done"
      /\ proxy_list = <<1, 2>>
      /\ Len(fTrace) = 2
      /\ fTrace[1][2] = "blocked_article"
      /\ fTrace[2][2] = "ok_article" )
    => /\ fTrace[1][1] = 1
       /\ fTrace[2][1] = 2
       /\ fResult.kind = "return"
       /\ ~fResult.article.is_blocked
       /\ fMarks = {<<"failed", 1>>, <<"success", 2>>}
       /\ fRot.failures[1] = 1
       /\ fRot.failures[2] = 0

C5_Witness ==
    /\ fPc = "done"
    /\ proxy_list = <<1, 2>>
    /\ fTrace = <<<<1, "blocked_article">>, <<2, "ok_article">>>>
    /\ fResult.kind = "return"

\* C6: once mark_failed(p) was called three times in a row, no later
\* get_proxy() or rotate() returns p, whatever calls follow, mark_success(p)
\* included.
C6_ExhaustedForSession ==
    \A p \in RotArgs : rotDoomed[p] => rotRet # p

\* p was exhausted, then credited with a success, and a proxy was handed out
C6_Witness ==
    \E p \in RotArgs :
        /\ rotDoomed[p]
        /\ rotStreak[p] = 0
        /\ p \in Range(rotator.proxies)
        /\ rotRet # NoProxy

\* C7: one fetch_html call sends at most max_retries + 1 requests, and a call
\* whose last allowed request fails raises the FetchError of that request.
C7_Safety ==
    /\ hRequests <= max_retries + 1
    /\ ( /\ hPc = "done"
         /\ hRequests >= 1
         /\ hRequests = max_retries + 1
         /\ hLastResp.kind # "ok" )
       => hResult = [kind |-> "raise", exc |-> ErrorOf(hLastResp)]

\* C7: the request budget of fetch_html is kept, its exhaustion surfaces the
\* last error, and every call terminates.
C7_RetryBudget == []C7_Safety /\ <>(hPc = "done")

\* four requests, the last one a 401 answered by a refresh
C7_Witness ==
    /\ hPc = "done"
    /\ max_retries = 3
    /\ hRequests = 4
    /\ hLastResp.code = 401
    /\ hRefreshed
    /\ hResult.kind = "raise"

\* C8 (as claimed): the request that follows a 401 answered by the refresh
\* callback carries the refreshed credentials: for a refreshed bearer token
\* the new Authorization value, and one attempt of the budget is spent on it.
C8_RefreshedCredentialsSent ==
    ( /\ hSent.after_refresh
      /\ hSent.auth.refresh \in {"str", "dict_bearer"}
      /\ hSent.auth.headers = NoVal )
    => /\ hSent.headers.Authorization = Bearer(hSent.auth.bearer_token)
       /\ hRequests >= 2

\* C9: once the initial static fetch has succeeded, adaptive_fetch_html
\* returns a FetchResult whatever later step fails; it raises only when the
\* initial fetch fails.
C9_RaisesOnlyOnInitialFetch ==
    aPc = "done" =>
        /\ classification # NoClassification => aResult.kind = "return"
        /\ aResult.kind = "raise" => (aStatic = 1 /\ aRenders = 0 /\ aFailed = {})

\* a render and a plugin failed, and the initial HTML was still returned
C9_Witness ==
    /\ aPc = "done"
    /\ {"render", "plugin"} \subseteq aFailed
    /\ aResult.kind = "return"

C11_EnqueuedAtMostOnce ==
    /\ \A norm \in DOMAIN enqueued : enqueued[norm] <= 1
    /\ \A r \in PageRequests : normalize_url(r.url) \in _seen_urls

\* C12: over a whole crawl the number of content-page requests enqueued (start
\* URL, sitemap and feed entries, rel=next and <a href> links) never exceeds
\* max_pages.
C12_MaxPagesIsHardCap == PagesEnqueued <= args.max_pages

\* C13: no content-page request is enqueued deeper than max_depth: links are
\* followed only from pages below max_depth and are one level deeper than
\* their page, sitemap and feed entries enter at depth 0, and a re-render keeps
\* the depth of the request it replaces.
C13_Step ==
    \A r \in NewRequests :
        r.kind = "page" =>
            /\ r.depth <= args.max_depth
            /\ r.origin \in {"start", "sitemap", "feed"} => r.depth = 0
            /\ r.origin \in {"next", "a"} =>
                   /\ cb.kind = "links"
                   /\ cb.depth < args.max_depth
                   /\ r.depth = cb.depth + 1
            /\ r.origin = "render" =>
                   \E p \in TakenRequests : p.url = r.url /\ p.depth = r.depth

C14_ConfinedToDomainSet ==
    \A r \in BagToSet(queue) :
        r.origin \in {"sitemap", "index", "feed", "alternate", "next", "a"} =>
            /\ r.url.scheme \in {"http", "https"}
            /\ InDomainSet(args, r.url.netloc)

\* C15: in a page whose links are followed, every <a href> whose normalized
\* URL is unseen and crawlable is enqueued while the budget lasts, wherever
\* the anchor sits in the document.
C15_EveryDueAnchorEnqueued ==
    step.what = "a" => (step.due => step.request)

\* C16: requests for rel=next targets and for sitemap entries have a strictly
\* higher scheduler priority than requests for <a href> links waiting with
\* them.
C16_NextAndSitemapOutrankAnchors ==
    \A r \in PageRequests, q \in PageRequests :
        r.origin \in {"next", "sitemap"} /\ q.origin = "a" => r.priority > q.priority

\* C17: with render_js = auto a statically fetched page that needs JavaScript
\* is re-enqueued for headless rendering instead of being extracted, at most
\* once per URL; the response of a headless request is never re-enqueued.
C17_RenderedAtMostOnce ==
    /\ \A u \in DOMAIN renders : renders[u] <= 1
    /\ step.what = "page" =>
          /\ step.answer = "rendered" => ~step.rendered
          /\ (args.render_js = "auto" /\ step.answer = "static"
                 /\ step.needs_js /\ step.fresh)
                => step.rendered /\ step.verdict = ""

C17_Witness ==
    /\ args.render_js = "auto"
    /\ step.what = "page" /\ step.answer = "rendered" /\ step.needs_js
    /\ ~step.rendered /\ step.verdict = "item"
    /\ \E u \in DOMAIN renders : renders[u] = 1

C19_UnprocessablePageIsSkipped ==
    (/\ step.what = "page"
     /\ \/ step.answer \in {"failed", "not_modified_304", "http_status",
                            "non_html_content_type"}
        \/ step.verdict = "extraction_returned_empty")
    => step.skip # ""

\* C20: the release times assigned to successive wait() calls for one domain
\* are at least the minimum interval apart, under every interleaving of the
\* threads sharing the limiter.
C20_ReleasesOneIntervalApart ==
    \A domain \in DOMAIN assigned :
        \A i \in 1..(Len(assigned[domain]) - 1) :
            assigned[domain][i + 1] >= assigned[domain][i] + _min_interval

C20_Witness ==
    \E domain \in DOMAIN assigned, t1 \in Threads, t2 \in Threads :
        /\ t1 # t2
        /\ Len(assigned[domain]) = 2
        /\ wLocal[t1].domain = domain /\ wLocal[t2].domain = domain
        /\ wLocal[t1].next_allowed = assigned[domain][1]
        /\ wLocal[t2].next_allowed = assigned[domain][2]
        /\ wPc[t1] = "sleep" /\ wPc[t2] = "sleep"

\* C21: with on_error = "raise" the first failure reaches the caller at once:
\* fetch_batch, holding the exception of the first failed fetch, is never kept
\* waiting for another submitted fetch that is still queued or running.
C21_RaisesWithoutWaiting ==
    bPc = "shutdown" => Finished = DOMAIN bTask

\* C22 as stated: after each get_context call the calling thread's pool holds
\* at most max_contexts contexts.
C22_AtMostMaxContexts ==
    poolCall.kind # "none" =>
        Len(_local[poolCall.thread].contexts) <= max_contexts

\* C22 amended: after each get_context call the calling thread's pool holds at
\* most max(1, max_contexts) contexts, none of them closed; a call that
\* overflows the pool evicts exactly the least recently used context and
\* closes it; the context returned is open and is the thread's newest.
C22_AtMostOneOrMaxContexts ==
    poolCall.kind # "none" =>
        LET contexts == _local[poolCall.thread].contexts IN
        /\ Len(contexts) <= MaxOf({1, max_contexts})
        /\ \A e \in Range(contexts) : e.ctx \notin ctxClosed
        /\ poolCall.evicted # <<>> =>
              /\ poolCall.evicted = <<Head(poolCall.held)>>
              /\ Len(poolCall.held) = MaxOf({1, max_contexts})
        /\ poolCall.kind = "ctx" =>
              /\ poolCall.ctx \notin ctxClosed
              /\ contexts[Len(contexts)].ctx = poolCall.ctx

C22_Witness ==
    /\ poolCall.kind = "ctx"
    /\ max_contexts = 2
    /\ poolCall.evicted # <<>>
    /\ \E e \in Range(_local[poolCall.thread].contexts), c \in ctxClosed : e.ctx < c

\* C23 as stated: if detect_block(H) is blocked, detect_block(H + C) is
\* blocked for any clean content C appended after H, with the same status.
C23_BlockedStaysBlocked ==
    DetectBlock(dbHtml, dbStatus) # "none" => DetectBlock(dbWhole, dbStatus) # "none"

\* C23 amended: a block of H survives appended clean content whenever H
\* matches a bot-protection fingerprint; a block that rests on sparse content
\* alone (ip_ban, soft_block, empty) survives exactly as long as the word
\* count of the whole text stays under the threshold of such a block.
C23_FingerprintBlockStaysBlocked ==
    DetectBlock(dbHtml, dbStatus) # "none" =>
        /\ dbHtml.marker # "none" => DetectBlock(dbWhole, dbStatus) # "none"
        /\ DetectBlock(dbWhole, dbStatus) = "none" =>
              /\ DetectBlock(dbHtml, dbStatus) \in {"ip_ban", "soft_block", "empty"}
              /\ dbWhole.wc >= 20
              /\ dbWhole.wc >= 30 \/ dbWhole.scripts <= 6
              /\ dbWhole.wc >= 200 \/ dbStatus \notin {401, 403, 407}

C23_Witness ==
    /\ dbAppends >= 1
    /\ DetectBlock(dbHtml, dbStatus) = "ip_ban"
    /\ DetectBlock(dbWhole, dbStatus) = "cloudflare"

\* C24: parse_feed is total: for every input string it returns a list, empty
\* when the input cannot be parsed, and never raises.
C24_ParseFeedIsTotal ==
    feedResult # NoFeedResult =>
        /\ feedResult.kind = "return"
        /\ xml_text.form \in {"malformed", "entities", "external"} => feedResult.value = <<>>

\* C25: if is_js_spa holds, classify_page returns page_type JS_SPA whatever
\* the other signals are, and recommends amp when an AMP URL is present and
\* playwright otherwise.
C25_SpaOutranksEverySignal ==
    (classification # NoClassification /\ classification.signals.is_js_spa) =>
        /\ classification.page_type = "js_spa"
        /\ classification.recommended_strategy =
              IF classification.signals.amp_url THEN "amp" ELSE "playwright"

C25_Witness ==
    /\ classification # NoClassification
    /\ classification.signals.is_js_spa
    /\ classification.signals.is_cookie_walled
    /\ classification.signals.amp_url
    /\ classification.signals.has_meta_title
    /\ classification.signals.body_word_count >= _MIN_CONTENT_WORDS
    /\ classification.recommended_strategy = "amp"

\* C26: normalize_url is idempotent: normalizing a normalized URL gives the
\* same text, for every input.
C26_NormalizeIsIdempotent ==
    Len(urlNorm) >= 2 => urlNorm[2] = urlNorm[1]

\* C27: whichever built-in tier produced the result, the plugins are
\* consulted in descending priority, and the first plugin whose output has
\* strictly more words than the built-in result replaces it.
C27_PluginsConsultedAfterAnyTier ==
    exResult # NoExtraction =>
        LET built == BuiltIn(exWords.r, exWords.t, exWords.d)
            sorted == ByPriority(extractors, MaxPriority)
            better == {i \in DOMAIN sorted :
                          sorted[i].can /\ sorted[i].words > built.word_count}
        IN  better # {} =>
                \E i \in better : /\ \A j \in better : i <= j
                                  /\ exResult.method = sorted[i].name

\* every start request was issued, no request is waiting, no callback runs
CrawlStopped ==
    /\ startPc > Len(SitemapProbes) + Len(FeedProbes) + 1
    /\ queue = EmptyBag
    /\ cb = NoCallback

\* C28: every crawl issues a bounded number of requests and then stops, for
\* any site content, also when sitemap-index documents list each other.
C28_CrawlStops == <>[]CrawlStopped

\* C29: concurrent mark_failed, mark_success and rotate calls on one
\* ProxyRotator are serialized and no counter update is lost: once every
\* call has returned, a proxy that mark_success was never called with has
\* failed as often as mark_failed returned for it.
C29_NoCounterUpdateLost ==
    (\A t \in DOMAIN rtPc : rtPc[t] = NotCalling) =>
        \A p \in DOMAIN _failures : p \notin rtReset => _failures[p] = rtMarked[p]

\* C30: one adaptive_fetch_html call invokes the headless renderer at most
\* once and issues at most two static fetches, whatever the classification
\* and whichever steps fail.
C30_AtMostOneRenderTwoStatic ==
    /\ aRenders <= 1
    /\ aStatic <= 2

\* a finished call whose AMP or mobile fetch failed and whose only render
\* was the fallback one
C30_Witness ==
    /\ aPc = "done"
    /\ aStatic = 2
    /\ aRenders = 1
    /\ aFailed \cap {"amp", "mobile_ua"} # {}

-----------------------------------------------------------------------------
(* Specifications, one per component *)

InitFetch ==
    /\ RotIdle /\ HtmlIdle /\ AdIdle /\ BatchIdle /\ CrawlIdle /\ LimitIdle
    /\ PoolIdle /\ DetectIdle /\ FeedIdle /\ UrlTextIdle /\ ExtractIdle /\ RotThreadsIdle
    /\ fPc = "first"
    /\ proxy_list \in ProxyLists
    /\ retry_on_block \in BOOLEAN
    /\ fRot = NoRotator
    /\ current_proxy = NoProxy
    /\ fAttempt = 0
    /\ article = NoArticle
    /\ fExc = NoExc
    /\ fResult = [kind |-> "none"]
    /\ fCalls = 0
    /\ fTrace = <<>>
    /\ fMarks = {}

NextFetch ==
    \/ FetchFirst
    \/ ArtLoopStep
    \/ ArtLoopExit
    \/ ErrLoopStep
    \/ ErrLoopExit

SpecFetch == InitFetch /\ [][NextFetch]_vars

InitRotator ==
    /\ FetchIdle /\ HtmlIdle /\ AdIdle /\ BatchIdle /\ CrawlIdle /\ LimitIdle
    /\ PoolIdle /\ DetectIdle /\ FeedIdle /\ UrlTextIdle /\ ExtractIdle /\ RotThreadsIdle
    /\ \E k \in 1..MaxRotProxies :
          \E l \in PatternLists(k), rotation \in {"round_robin", "random"} :
             rotator = NewRotator(l, rotation)
    /\ rotRet = NoProxy
    /\ rotStreak = [p \in RotArgs |-> 0]
    /\ rotDoomed = [p \in RotArgs |-> FALSE]

NextRotator ==
    \/ RotGetProxy
    \/ RotRotate
    \/ RotMarkFailed
    \/ RotMarkSuccess

SpecRotator == InitRotator /\ [][NextRotator]_vars

\* longest retry budget handed to fetch_html
MaxRetries == 3

Auths ==
    {NoAuth} \cup
    {AuthSession(token, hdr, sid, refresh) :
        token \in {"", "tok_old"}, hdr \in {NoVal, <<"Token", "static">>},
        sid \in {"", "old"}, refresh \in RefreshKinds}

InitFetchHtml ==
    /\ RotIdle /\ FetchIdle /\ AdIdle /\ BatchIdle /\ CrawlIdle /\ LimitIdle
    /\ PoolIdle /\ DetectIdle /\ FeedIdle /\ UrlTextIdle /\ ExtractIdle /\ RotThreadsIdle
    /\ hPc = "start"
    /\ max_retries \in -1..MaxRetries
    /\ auth \in Auths
    /\ reqHeaders = EmptyHeaders
    /\ attempt = 0
    /\ last_exc = NoExc
    /\ hResult = [kind |-> "none"]
    /\ hRequests = 0
    /\ hSent = [headers |-> EmptyHeaders, auth |-> NoAuth, after_refresh |-> FALSE]
    /\ hLastResp = [kind |-> "none", code |-> 0]
    /\ hRefreshed = FALSE

NextFetchHtml ==
    \/ HtmlStart
    \/ HtmlAttempt
    \/ HtmlExhausted

\* the loop is straight-line code: each request returns within its timeout
\* and each back-off sleep ends, so a step that can be taken is taken
SpecFetchHtml == InitFetchHtml /\ [][NextFetchHtml]_vars /\ WF_vars(NextFetchHtml)

\* most strategy plugins registered
MaxPlugins == 2

InitAdaptive ==
    /\ RotIdle /\ FetchIdle /\ HtmlIdle /\ BatchIdle /\ CrawlIdle /\ LimitIdle
    /\ PoolIdle /\ DetectIdle /\ FeedIdle /\ UrlTextIdle /\ ExtractIdle /\ RotThreadsIdle
    /\ aPc = "static"
    /\ classification = NoClassification
    /\ \E n \in 0..MaxPlugins : aPlugins = SubSeq(PluginNamePool, 1, n)
    /\ aPlugIdx = 1
    /\ aResult = [kind |-> "none"]
    /\ aStatic = 0
    /\ aRenders = 0
    /\ aFailed = {}

NextAdaptive ==
    \/ AdStatic
    \/ AdAmp
    \/ AdMobile
    \/ AdPlaywright
    \/ AdFallback
    \/ AdPlugin
    \/ AdBestEffort

SpecAdaptive == InitAdaptive /\ [][NextAdaptive]_vars

\* longest url list and largest pool handed to fetch_batch
MaxUrls == 3
MaxWorkers == 2

InitBatch ==
    /\ RotIdle /\ FetchIdle /\ HtmlIdle /\ AdIdle /\ CrawlIdle /\ LimitIdle
    /\ PoolIdle /\ DetectIdle /\ FeedIdle /\ UrlTextIdle /\ ExtractIdle /\ RotThreadsIdle
    /\ bPc = "start"
    /\ urls \in SeqsUpTo(UrlNames, MaxUrls)
    /\ on_error \in {"skip", "raise", "include", "ignore"}
    /\ max_workers \in 1..MaxWorkers
    /\ bTask = <<>>
    /\ bFetched = [i \in DOMAIN urls |-> "none"]
    /\ bYielded = <<>>
    /\ results = <<>>
    /\ bPending = NoExc
    /\ bResult = [kind |-> "none"]

NextBatch ==
    \/ BatchStart
    \/ WorkerStart
    \/ WorkerFinish
    \/ BatchCollect
    \/ BatchReturn
    \/ BatchRaise

SpecBatch == InitBatch /\ [][NextBatch]_vars

\* the spider after __init__, the crawl about to start
CrawlInit(arguments) ==
    /\ RotIdle /\ FetchIdle /\ HtmlIdle /\ AdIdle /\ BatchIdle /\ LimitIdle
    /\ PoolIdle /\ DetectIdle /\ FeedIdle /\ UrlTextIdle /\ ExtractIdle /\ RotThreadsIdle
    /\ args \in arguments
    /\ persisted \in IF args.resume THEN OutDirs ELSE {EmptyOutDir}
    /\ _seen_urls = _load_seen_urls(args, persisted)
    /\ _seen_feeds = {}
    /\ _playwright_attempted = {}
    /\ _pages_crawled = 0
    /\ startPc = 1
    /\ queue = EmptyBag
    /\ cb = NoCallback
    /\ enqueued = [norm \in NormUrls |-> 0]
    /\ renders = [u \in LinkUrls |-> 0]
    /\ step = NoStep

InitCrawl == CrawlInit(BaseArgs)

InitCrawlDomains == CrawlInit(DomainArgs)

InitCrawlResume == CrawlInit(ResumeArgs)

NextCrawl ==
    \/ StartSitemapProbe
    \/ StartFeedProbe
    \/ StartUrl
    \/ DeliverSitemap
    \/ DeliverFeed
    \/ DeliverPage
    \/ ParseSitemapIndex
    \/ ParseSitemapUrlset
    \/ ParseFeed
    \/ DiscoverNext
    \/ DiscoverFeeds
    \/ DiscoverAnchors

SpecCrawl == InitCrawl /\ [][NextCrawl]_vars

SpecCrawlDomains == InitCrawlDomains /\ [][NextCrawl]_vars

SpecCrawlResume == InitCrawlResume /\ [][NextCrawl]_vars

InitLimiter ==
    /\ RotIdle /\ FetchIdle /\ HtmlIdle /\ AdIdle /\ BatchIdle /\ CrawlIdle
    /\ PoolIdle /\ DetectIdle /\ FeedIdle /\ UrlTextIdle /\ ExtractIdle /\ RotThreadsIdle
    /\ _min_interval \in 1..MaxInterval
    /\ _last_request_at = <<>>
    /\ _lock = NoThread
    /\ clock = 0
    /\ wPc = [t \in Threads |-> "idle"]
    /\ wLocal = [t \in Threads |-> NoLocals]
    /\ assigned = <<>>
    /\ wCalls = 0

NextLimiter ==
    \/ WaitCall
    \/ WaitAcquire
    \/ WaitRead
    \/ WaitWrite
    \/ WaitRelease
    \/ WaitWake
    \/ Tick

SpecLimiter == InitLimiter /\ [][NextLimiter]_vars

\* PlaywrightPool(max_contexts, enabled) after __init__
InitPool ==
    /\ RotIdle /\ FetchIdle /\ HtmlIdle /\ AdIdle /\ BatchIdle /\ CrawlIdle /\ LimitIdle /\ DetectIdle /\ FeedIdle /\ UrlTextIdle /\ ExtractIdle /\ RotThreadsIdle
    /\ max_contexts \in 0..MaxContextsArg
    /\ _max_contexts = MaxOf({1, max_contexts})
    /\ _enabled \in BOOLEAN
    /\ _local = [t \in PoolThreads |-> NoThreadState]
    /\ ctxClosed = {}
    /\ ctxMade = 0
    /\ lastUse = [t \in PoolThreads |-> [k \in PoolKeys |-> 0]]
    /\ poolCalls = 0
    /\ poolCall = NoPoolCall

NextPool ==
    \/ GetContext
    \/ PoolClose

SpecPool == InitPool /\ [][NextPool]_vars

\* a page H and the status code it came with
InitDetect ==
    /\ RotIdle /\ FetchIdle /\ HtmlIdle /\ AdIdle /\ BatchIdle /\ CrawlIdle /\ LimitIdle /\ PoolIdle /\ FeedIdle /\ UrlTextIdle /\ ExtractIdle /\ RotThreadsIdle
    /\ dbHtml \in Pages
    /\ dbStatus \in StatusCodes
    /\ dbWhole = dbHtml
    /\ dbAppends = 0

NextDetect == AppendClean

SpecDetect == InitDetect /\ [][NextDetect]_vars

InitFeed ==
    /\ RotIdle /\ FetchIdle /\ HtmlIdle /\ AdIdle /\ BatchIdle /\ CrawlIdle /\ LimitIdle /\ PoolIdle /\ DetectIdle /\ UrlTextIdle /\ ExtractIdle /\ RotThreadsIdle
    /\ xml_text \in FeedDocs
    /\ feedResult = NoFeedResult

NextFeed == ParseFeedCall

SpecFeed == InitFeed /\ [][NextFeed]_vars

InitUrlText ==
    /\ RotIdle /\ FetchIdle /\ HtmlIdle /\ AdIdle /\ BatchIdle /\ CrawlIdle /\ LimitIdle /\ PoolIdle /\ DetectIdle /\ FeedIdle /\ ExtractIdle /\ RotThreadsIdle
    /\ urlText \in UrlTexts
    /\ urlNorm = <<>>

NextUrlText == NormalizeCall

SpecUrlText == InitUrlText /\ [][NextUrlText]_vars

InitExtract ==
    /\ RotIdle /\ FetchIdle /\ HtmlIdle /\ AdIdle /\ BatchIdle /\ CrawlIdle /\ LimitIdle /\ PoolIdle /\ DetectIdle /\ FeedIdle /\ UrlTextIdle /\ RotThreadsIdle
    /\ exWords \in [r : ReadabilityWords, t : TrafilaturaWords, d : DomWords]
    /\ extractors \in SeqsUpTo(ExtractorPlugins, MaxExtractors)
    /\ \A i, j \in DOMAIN extractors : i # j => extractors[i].name # extractors[j].name
    /\ exResult = NoExtraction

NextExtract == ExtractMainContent

SpecExtract == InitExtract /\ [][NextExtract]_vars

InitRotThreads ==
    /\ RotIdle /\ FetchIdle /\ HtmlIdle /\ AdIdle /\ BatchIdle /\ CrawlIdle /\ LimitIdle /\ PoolIdle /\ DetectIdle /\ FeedIdle /\ UrlTextIdle /\ ExtractIdle
    /\ _proxies \in {<<"p1">>, <<"p1", "p2">>}
    /\ _rotation \in {"round_robin", "random"}
    /\ _index = 0
    /\ _failures = [p \in Range(_proxies) |-> 0]
    /\ _exhausted = [p \in Range(_proxies) |-> FALSE]
    /\ rtPc = [t \in RotThreads |-> NotCalling]
    /\ rtCalls = 0
    /\ rtMarked = [p \in Range(_proxies) |-> 0]
    /\ rtReset = {}

NextRotThreads ==
    \/ \E t \in RotThreads : MarkFailedLoad(t)
    \/ \E t \in RotThreads : MarkFailedStore(t)
    \/ \E t \in RotThreads : MarkFailedTest(t)
    \/ \E t \in RotThreads : MarkSuccessCall(t)
    \/ \E t \in RotThreads : RotateLoad(t)
    \/ \E t \in RotThreads : RotateStore(t)

SpecRotThreads == InitRotThreads /\ [][NextRotThreads]_vars

\* a callback's loop over a document ends, since the document is finite
CallbackMoves == NextCrawl /\ cb' # cb

\* the engine keeps taking requests and running callbacks while there are any
SpecCrawlLive ==
    InitCrawl /\ [][NextCrawl]_vars /\ WF_vars(NextCrawl) /\ WF_vars(CallbackMoves)

=============================================================================
